---- MODULE Spec2Model ----
(***************************************************************************)
(* Intent routing and execution planning of olla-cli:                      *)
(*   mcp/tools.py, mcp/registry.py   capabilities, tools, the registry     *)
(*   routing/intent.py               the intent classifier                 *)
(*   routing/planner.py              ExecutionStep, ExecutionPlan, Planner *)
(*   routing/router.py               ToolRouter.route_request              *)
(*                                                                         *)
(* Numbers in [0,1] (confidences, thresholds, boosts) are kept in tenths.  *)
(***************************************************************************)
EXTENDS Integers, Sequences, FiniteSets, TLC

(***************************************************************************)
(* Bounds of the model.                                                    *)
(***************************************************************************)
\* largest number of calls (route_request / execute_plan) made by the caller
MaxRequests == 2
\* largest number of steps of a plan the caller builds by hand
MaxSteps == 3

(***************************************************************************)
(* Values: parameter values, tool data.  One record shape for all of them. *)
(*   str  a string;  ref  the string "${step_<id>_result}";                *)
(*   embed  a longer string around that token: v = "suffix" for            *)
(*          "${step_<id>_result}.bak", "prefix" for "see ${step_<id>_result}",*)
(*          "twice" for "${step_<id>_result}${step_<id>_result}";          *)
(*   out  the (non-empty) data produced by the tool of step <id>;          *)
(*   none Python's None.                                                   *)
(***************************************************************************)
NoId == <<0, 0>>

Str(s) == [k |-> "str", id |-> NoId, v |-> s]

Placeholder(sid) == [k |-> "ref", id |-> sid, v |-> ""]

Embedded(sid, where) == [k |-> "embed", id |-> sid, v |-> where]

Out(sid) == [k |-> "out", id |-> sid, v |-> ""]

None == [k |-> "none", id |-> NoId, v |-> ""]

\* Python truthiness of a value: None and the empty string are falsy
Truthy(x) == x.k \in {"ref", "embed", "out"} \/ (x.k = "str" /\ x.v # "")

\* the empty dict
EmptyDict == [x \in {} |-> None]

(***************************************************************************)
(* mcp/tools.py                                                            *)
(***************************************************************************)
ToolType == {"filesystem", "code_analysis", "web", "shell", "generation", "context", "task"}

\* the default of ToolCapability.confidence_threshold (0.7)
DefaultThreshold == 7

ToolCapability(name, required, ttype, threshold) ==
    [name |-> name, required_params |-> required, tool_type |-> ttype,
     confidence_threshold |-> threshold]

intent_capability_mapping ==
    [i \in {"code_explain", "code_review", "code_generate", "code_refactor", "code_debug",
            "file_read", "file_write", "file_list", "web_fetch", "web_search"} |->
        CASE i = "code_explain"  -> {"explain_code"}
          [] i = "code_review"   -> {"review_code"}
          [] i = "code_generate" -> {"generate_code"}
          [] i = "code_refactor" -> {"refactor_code"}
          [] i = "code_debug"    -> {"debug_code"}
          [] i = "file_read"     -> {"read_file"}
          [] i = "file_write"    -> {"write_file"}
          [] i = "file_list"     -> {"list_files"}
          [] i = "web_fetch"     -> {"fetch_url"}
          [] OTHER               -> {"search_web"}]

\* a faulty matches_intent that forgets the threshold
matches_name_only(cap, intent, confidence) ==
    intent \in DOMAIN intent_capability_mapping
        /\ cap.name \in intent_capability_mapping[intent]


\* a faulty matches_intent that lets an intent type without a mapping match
\* every capability
matches_unmapped(cap, intent, confidence) ==
    IF confidence < cap.confidence_threshold
    THEN FALSE
    ELSE intent \notin DOMAIN intent_capability_mapping
             \/ cap.name \in intent_capability_mapping[intent]

\* ToolCapability.matches_intent
matches_intent(cap, intent, confidence) ==
    IF confidence < cap.confidence_threshold
    THEN FALSE
    ELSE LET matching == IF intent \in DOMAIN intent_capability_mapping
                         THEN intent_capability_mapping[intent] ELSE {}
         IN  cap.name \in matching

\* The tool objects that may be registered: the three built-in tools and
\* three tools of a caller (a second analyser with laxer thresholds, a second
\* writer with a stricter one, and a later version of the second analyser
\* that carries the same name and offers explain_code twice, strict first).
ToolObjs == {"filesystem", "code_analysis", "web", "linter", "writer", "linter_v2"}

\* ToolInterface.__init__: the name the tool object carries
ToolName(t) == IF t = "linter_v2" THEN "linter" ELSE t

\* ToolInterface.get_capabilities of each tool object
get_capabilities(t) ==
    CASE t = "filesystem" ->
           << ToolCapability("read_file", <<"file_path">>, "filesystem", DefaultThreshold),
              ToolCapability("write_file", <<"file_path", "content">>, "filesystem", DefaultThreshold),
              ToolCapability("list_files", <<"directory">>, "filesystem", DefaultThreshold) >>
      [] t = "code_analysis" ->
           << ToolCapability("explain_code", <<"code">>, "code_analysis", DefaultThreshold),
              ToolCapability("review_code", <<"code">>, "code_analysis", DefaultThreshold),
              ToolCapability("generate_code", <<"description">>, "code_analysis", DefaultThreshold) >>
      [] t = "web" ->
           << ToolCapability("fetch_url", <<"url">>, "web", DefaultThreshold),
              ToolCapability("search_web", <<"query">>, "web", DefaultThreshold) >>
      [] t = "linter" ->
           << ToolCapability("review_code", <<"code">>, "code_analysis", 5),
              ToolCapability("explain_code", <<"code">>, "code_analysis", 5) >>
      [] t = "linter_v2" ->
           << ToolCapability("explain_code", <<"code">>, "code_analysis", 8),
              ToolCapability("explain_code", <<"code">>, "generation", 5) >>
      [] OTHER ->
           << ToolCapability("write_file", <<"file_path", "content">>, "filesystem", 8) >>

\* a faulty can_handle that returns the last capability that matches
can_handle_last(t, intent, confidence) ==
    LET caps == get_capabilities(t)
        hits == {i \in 1..Len(caps) : matches_intent(caps[i], intent, confidence)}
    IN  IF hits = {} THEN <<>>
        ELSE << caps[CHOOSE i \in hits : \A j \in hits : i >= j] >>

\* ToolInterface.can_handle: the first capability that matches, <<>> for None
can_handle(t, intent, confidence) ==
    LET caps == get_capabilities(t)
        hits == {i \in 1..Len(caps) : matches_intent(caps[i], intent, confidence)}
    IN  IF hits = {} THEN <<>>
        ELSE << caps[CHOOSE i \in hits : \A j \in hits : i <= j] >>

\* a faulty validation that accepts any parameters
validate_anything(cap, params) == TRUE

\* ToolInterface.validate_params
validate_params(cap, params) ==
    \A i \in 1..Len(cap.required_params) : cap.required_params[i] \in DOMAIN params

(***************************************************************************)
(* mcp/registry.py                                                         *)
(***************************************************************************)
\* a faulty sort that leaves the list as it is
NoSort(ms) == ms

\* list.sort(key = confidence_threshold, reverse = True): a stable sort
RECURSIVE SortByThreshold(_)
SortByThreshold(ms) ==
    IF ms = <<>> THEN <<>>
    ELSE LET best == CHOOSE i \in 1..Len(ms) :
                        /\ \A j \in 1..Len(ms) :
                              ms[j].capability.confidence_threshold
                                  <= ms[i].capability.confidence_threshold
                        /\ \A j \in 1..(i - 1) :
                              ms[j].capability.confidence_threshold
                                  < ms[i].capability.confidence_threshold
             rest == [j \in 1..(Len(ms) - 1) |-> IF j < best THEN ms[j] ELSE ms[j + 1]]
         IN  <<ms[best]>> \o SortByThreshold(rest)

\* the matches of find_tools_for_intent before sorting, in the order of the
\* tools dict (registered: the tool objects in insertion order)
RECURSIVE Matches(_, _, _)
Matches(registered, intent, confidence) ==
    IF registered = <<>> THEN <<>>
    ELSE LET cap == can_handle(Head(registered), intent, confidence)
             here == IF cap = <<>> THEN <<>>
                     ELSE << [tool |-> Head(registered), capability |-> cap[1]] >>
         IN  here \o Matches(Tail(registered), intent, confidence)

\* ToolRegistry.find_tools_for_intent
find_tools_for_intent(registered, intent, confidence) ==
    SortByThreshold(Matches(registered, intent, confidence))

\* a faulty lookup that reverses the tools dict it read
tools_reversed(registered) ==
    [i \in 1..Len(registered) |-> registered[Len(registered) + 1 - i]]

\* find_tools_for_intent reads self.tools and sorts a list of its own: the
\* tools dict it leaves
tools_after_lookup(registered) == registered

\* The registry: tools is the dict name -> tool object as the sequence of
\* its values in insertion order (the key of a value t is ToolName(t)),
\* capabilities the dict name -> list of capabilities, type_index the dict
\* tool type -> list of names.
Registry(registered, caps_by_name, index) ==
    [tools |-> registered, capabilities |-> caps_by_name, type_index |-> index]

\* ToolRegistry.__init__
EmptyRegistry == Registry(<<>>, EmptyDict, EmptyDict)

\* tool_name in self.tools
IsRegistered(registered, name) ==
    \E i \in 1..Len(registered) : ToolName(registered[i]) = name

\* a faulty registration that keeps the tool registered first under a name
KeepTool(registered, t) ==
    LET Same(x) == ToolName(x) = ToolName(t)
    IN  IF SelectSeq(registered, Same) # <<>> THEN registered ELSE Append(registered, t)

\* self.tools[tool.name] = tool: an existing key keeps its place in the dict
PutTool(registered, t) ==
    IF IsRegistered(registered, ToolName(t))
    THEN [i \in 1..Len(registered) |->
             IF ToolName(registered[i]) = ToolName(t) THEN t ELSE registered[i]]
    ELSE Append(registered, t)

\* self.capabilities[tool.name] = capabilities
PutCapabilities(caps_by_name, t) ==
    (ToolName(t) :> get_capabilities(t)) @@ caps_by_name

\* the loop of register_tool over the capabilities: the name is appended
\* to the list of each of their types unless it is there
RECURSIVE IndexByType(_, _, _)
IndexByType(index, name, caps) ==
    IF caps = <<>> THEN index
    ELSE LET ty == Head(caps).tool_type
             listed == IF ty \in DOMAIN index THEN index ELSE (ty :> <<>>) @@ index
             added == IF \E i \in 1..Len(listed[ty]) : listed[ty][i] = name
                      THEN listed
                      ELSE [listed EXCEPT ![ty] = Append(@, name)]
         IN  IndexByType(added, name, Tail(caps))

\* ToolRegistry.register_tool
register_tool(reg, t) ==
    Registry(PutTool(reg.tools, t),
             PutCapabilities(reg.capabilities, t),
             IndexByType(reg.type_index, ToolName(t), get_capabilities(t)))

\* list.remove(name): the first occurrence is removed
RemoveName(names, name) ==
    LET at == {i \in 1..Len(names) : names[i] = name}
    IN  IF at = {} THEN names
        ELSE LET first == CHOOSE i \in at : \A j \in at : i <= j
             IN  [j \in 1..(Len(names) - 1) |-> IF j < first THEN names[j] ELSE names[j + 1]]

\* the loop of unregister_tool over the type index
RemoveFromIndex(index, name) ==
    [ty \in DOMAIN index |-> RemoveName(index[ty], name)]

\* a faulty unregister_tool that leaves the type index as it is
unregister_keeps_index(reg, name) ==
    LET NotIt(t) == ToolName(t) # name
    IN  [tools |-> SelectSeq(reg.tools, NotIt),
         capabilities |-> [n \in DOMAIN reg.capabilities \ {name} |-> reg.capabilities[n]],
         type_index |-> reg.type_index]

\* ToolRegistry.unregister_tool: the registry it leaves
unregister_tool(reg, name) ==
    IF ~ IsRegistered(reg.tools, name)
    THEN reg
    ELSE LET NotIt(t) == ToolName(t) # name
         IN  Registry(SelectSeq(reg.tools, NotIt),
                      [n \in DOMAIN reg.capabilities \ {name} |-> reg.capabilities[n]],
                      RemoveFromIndex(reg.type_index, name))

\* ToolRegistry.unregister_tool: the value it returns
unregister_returns(reg, name) == IsRegistered(reg.tools, name)

\* ToolRegistry.get_tool: a one-element sequence, <<>> for None
get_tool(registered, name) ==
    LET Named(t) == ToolName(t) = name
    IN  SelectSeq(registered, Named)

\* ToolRegistry.get_tools_by_type
get_tools_by_type(registered, index, ty) ==
    LET names == IF ty \in DOMAIN index THEN index[ty] ELSE <<>>
        Known(n) == IsRegistered(registered, n)
        known == SelectSeq(names, Known)
    IN  [i \in 1..Len(known) |-> get_tool(registered, known[i])[1]]

\* ToolRegistry.get_all_tools
get_all_tools(registered) == registered

\* ToolRegistry.get_capabilities_summary: per name the name and the type of
\* each capability
get_capabilities_summary(caps_by_name) ==
    [n \in DOMAIN caps_by_name |->
        [i \in 1..Len(caps_by_name[n]) |->
            [name |-> caps_by_name[n][i].name, type |-> caps_by_name[n][i].tool_type]]]

\* register_tool for each tool of a sequence, in order
RECURSIVE RegisterAll(_, _)
RegisterAll(reg, ts) ==
    IF ts = <<>> THEN reg ELSE RegisterAll(register_tool(reg, Head(ts)), Tail(ts))

(***************************************************************************)
(* routing/intent.py                                                       *)
(***************************************************************************)
IntentType == {"code_explain", "code_review", "code_generate", "code_refactor",
               "code_debug", "file_read", "file_write", "file_list", "web_fetch",
               "web_search", "shell_execute", "task_complex", "chat_general",
               "config_manage", "model_manage", "unknown"}

\* IntentClassifier._load_intent_patterns: the table in declaration order;
\* for every intent type the confidence boosts of its patterns, in order
patterns ==
    << << "code_explain",  << 3, 4, 5 >> >>,
       << "code_review",   << 3, 2, 5 >> >>,
       << "code_generate", << 3, 4, 2 >> >>,
       << "code_refactor", << 4, 3, 5 >> >>,
       << "code_debug",    << 3, 2, 5 >> >>,
       << "file_read",     << 3, 4, 4 >> >>,
       << "file_write",    << 3, 4, 3, 5, 4, 3 >> >>,
       << "file_list",     << 3, 4, 2 >> >>,
       << "web_fetch",     << 3, 4, 4 >> >>,
       << "web_search",    << 3, 3, 4 >> >>,
       << "shell_execute", << 5, 3, 4 >> >>,
       << "task_complex",  << 3, 2, 5, 6, 5, 4, 7, 8, 7, 6, 7, 9, 10, 10 >> >>,
       << "config_manage", << 3, 5, 3 >> >>,
       << "model_manage",  << 4, 5, 4 >> >> >>

\* the keyword_intents of _classify_by_keywords, in declaration order
keyword_intents ==
    << "chat_general", "code_explain", "code_generate", "file_read", "config_manage" >>

\* A request text, given by what the classifier's and the planner's regular
\* expressions and keyword lists find in it (after strip().lower()):
\*   is_str    FALSE for a user_input that is no string (None)
\*   matched   the patterns of the table that re.search finds in it, each as
\*             <<intent type, position of the pattern in the type's list>>
\*   keywords  how many context keywords of the categories code_operations,
\*             file_operations and web_operations it contains
\*   hits      for every entry of keyword_intents how many of its keywords
\*             it contains
\*   params    what _extract_parameters finds
\*   filename  "full": a filename with a known extension, "partial": only
\*             "file called <name>." (no extension), "no": neither
Text(text, is_str, matched, keywords, hits, params, filename) ==
    [text |-> text, is_str |-> is_str, matched |-> matched, keywords |-> keywords,
     hits |-> hits, params |-> params, filename |-> filename]

FooPy == ("file_path" :> Str("foo.py"))

Keywords(code, file, web) == [code |-> code, file |-> file, web |-> web]

\* The request texts the caller sends.
Texts ==
    { Text("explain foo.py", TRUE, {<<"code_explain", 2>>, <<"code_explain", 3>>},
           Keywords(0, 1, 0), <<0, 1, 0, 0, 0>>, FooPy, "full"),
      Text("explain this code: print(1)", TRUE,
           {<<"code_explain", 1>>, <<"code_explain", 3>>},
           Keywords(1, 0, 0), <<1, 1, 0, 0, 0>>, EmptyDict, "no"),
      Text("review this code", TRUE, {<<"code_review", 1>>, <<"code_review", 3>>},
           Keywords(1, 0, 0), <<1, 0, 0, 0, 0>>, EmptyDict, "no"),
      Text("review foo.py", TRUE, {<<"code_review", 3>>},
           Keywords(0, 1, 0), <<0, 0, 0, 0, 0>>, FooPy, "full"),
      Text("generate code for sorting", TRUE,
           {<<"code_generate", 1>>, <<"code_generate", 2>>},
           Keywords(1, 0, 0), <<0, 0, 1, 0, 0>>, EmptyDict, "no"),
      Text("generate code in foo.py", TRUE,
           {<<"code_generate", 1>>, <<"code_generate", 2>>, <<"task_complex", 7>>,
            <<"task_complex", 9>>},
           Keywords(1, 1, 0), <<0, 0, 1, 0, 0>>, FooPy, "full"),
      Text("generate code for file called foo.", TRUE,
           {<<"code_generate", 1>>, <<"code_generate", 2>>},
           Keywords(1, 1, 0), <<0, 0, 1, 0, 0>>, EmptyDict, "partial"),
      Text("create foo.py", TRUE, {<<"file_write", 5>>, <<"task_complex", 7>>},
           Keywords(0, 1, 0), <<0, 0, 1, 0, 0>>, FooPy, "full"),
      Text("search for cats", TRUE, {<<"web_search", 2>>, <<"web_search", 3>>},
           Keywords(0, 0, 0), <<0, 0, 0, 1, 0>>, EmptyDict, "no"),
      Text("task do stuff", TRUE, {<<"task_complex", 1>>, <<"task_complex", 3>>},
           Keywords(0, 0, 0), <<0, 0, 0, 0, 0>>, EmptyDict, "no"),
      Text("task do stuff with foo.py", TRUE,
           {<<"task_complex", 1>>, <<"task_complex", 3>>},
           Keywords(0, 1, 0), <<0, 0, 0, 0, 0>>, FooPy, "full"),
      Text("hello", TRUE, {}, Keywords(0, 0, 0), <<1, 0, 0, 0, 0>>, EmptyDict, "no"),
      Text("", TRUE, {}, Keywords(0, 0, 0), <<0, 0, 0, 0, 0>>, EmptyDict, "no"),
      Text("None", FALSE, {}, Keywords(0, 0, 0), <<0, 0, 0, 0, 0>>, EmptyDict, "no") }

Min(a, b) == IF a <= b THEN a ELSE b

\* The keys of the context dictionary that classification looks at; a context
\* is given by the keys it has (None and {} have none).
ContextKeys == {"file_path", "code"}

NoContext == {}

Intent(type, confidence, parameters, raw_input) ==
    [type |-> type, confidence |-> confidence, parameters |-> parameters,
     raw_input |-> raw_input]

\* the category of context keywords that boosts an intent type:
\* intent_type.value.startswith('code_') and so on
KeywordBoost(t, type) ==
    IF type \in {"code_explain", "code_review", "code_generate", "code_refactor",
                 "code_debug"} THEN t.keywords.code
    ELSE IF type \in {"file_read", "file_write", "file_list"} THEN t.keywords.file
    ELSE IF type \in {"web_fetch", "web_search"} THEN t.keywords.web
    ELSE 0

\* IntentClassifier._calculate_confidence: 0.5, 0.2 for a context with
\* file_path (code) and an intent type it supports, 0.1 for every context
\* keyword of the intent's own category, at most 1.0
calculate_confidence(t, type, context) ==
    Min(10, 5
            + (IF "file_path" \in context
                  /\ type \in {"file_read", "file_write", "code_explain"}
               THEN 2 ELSE 0)
            + (IF "code" \in context
                  /\ type \in {"code_explain", "code_review", "code_refactor"}
               THEN 2 ELSE 0)
            + KeywordBoost(t, type))

\* the loop of _classify_by_keywords over keyword_intents from entry i on:
\* an entry replaces the best one only with a strictly greater score
RECURSIVE BestKeywordIntent(_, _, _)
BestKeywordIntent(t, i, best) ==
    IF i > Len(keyword_intents) THEN best
    ELSE BestKeywordIntent(t, i + 1,
             IF t.hits[i] > best.score
             THEN [type |-> keyword_intents[i], score |-> t.hits[i]] ELSE best)

\* a faulty fallback that gives confidence 0 when no keyword occurs
classify_by_keywords_zero(t) ==
    LET best == BestKeywordIntent(t, 1, [type |-> "unknown", score |-> 0])
    IN  Intent(best.type, Min(6, best.score * 2), EmptyDict, t)

\* IntentClassifier._classify_by_keywords
classify_by_keywords(t) ==
    LET best == BestKeywordIntent(t, 1, [type |-> "unknown", score |-> 0])
    IN  Intent(best.type,
               IF best.score > 0 THEN Min(6, best.score * 2) ELSE 1,
               EmptyDict, t)

\* the positions <<i, k>> of the table whose pattern matches the text
MatchedPositions(t) ==
    { ik \in UNION { {<<i, k>> : k \in 1..Len(patterns[i][2])} : i \in 1..Len(patterns) } :
        <<patterns[ik[1]][1], ik[2]>> \in t.matched }

\* a faulty scan that takes the matching pattern with the highest boost
BestMatch(t) ==
    CHOOSE ik \in MatchedPositions(t) :
        \A jl \in MatchedPositions(t) :
            \/ patterns[jl[1]][2][jl[2]] < patterns[ik[1]][2][ik[2]]
            \/ /\ patterns[jl[1]][2][jl[2]] = patterns[ik[1]][2][ik[2]]
               /\ (ik[1] < jl[1] \/ (ik[1] = jl[1] /\ ik[2] <= jl[2]))

\* the two nested for loops of classify: the first matching pattern of the
\* first intent type that has one
FirstMatch(t) ==
    CHOOSE ik \in MatchedPositions(t) :
        \A jl \in MatchedPositions(t) :
            ik[1] < jl[1] \/ (ik[1] = jl[1] /\ ik[2] <= jl[2])

\* IntentClassifier.classify (of a string; a non-string raises, see
\* ClassifyRaises); context_hints, which nothing in routing reads, is left out
classify(t, context) ==
    IF MatchedPositions(t) # {}
    THEN LET type == patterns[FirstMatch(t)[1]][1]
             confidence_boost == patterns[FirstMatch(t)[1]][2][FirstMatch(t)[2]]
         IN  Intent(type,
                    Min(10, calculate_confidence(t, type, context) + confidence_boost),
                    t.params, t)
    ELSE classify_by_keywords(t)

\* user_input.strip() raises AttributeError when user_input is no string
ClassifyRaises(t) == ~ t.is_str

\* ToolRouter._contains_filename and ExecutionPlanner._contains_filename
contains_filename(t) == t.filename # "no"

\* ExecutionPlanner._extract_filename: a one-element sequence, <<>> for None
extract_filename(t) == IF t.filename = "full" THEN << Str("foo.py") >> ELSE <<>>

(***************************************************************************)
(* routing/planner.py: ExecutionStep, ExecutionPlan and plan construction  *)
(***************************************************************************)
StepStatus == {"pending", "running", "completed", "failed", "skipped"}

\* the default of ExecutionStep.max_retries
DefaultMaxRetries == 3

ToolResult(success, data, error) == [success |-> success, data |-> data, error |-> error]

\* A new ExecutionStep.  result and passed are one-element sequences, <<>>
\* for None.  executions counts the calls of execute(), invocations the calls
\* of tool.execute(), passed holds the parameters of the last one.
ExecutionStep(id, tool, capability, parameters, dependencies) ==
    [id |-> id, tool |-> tool, capability |-> capability, parameters |-> parameters,
     status |-> "pending", result |-> <<>>, error |-> "",
     dependencies |-> dependencies, retry_count |-> 0, max_retries |-> DefaultMaxRetries,
     executions |-> 0, invocations |-> 0, passed |-> <<>>]

ExecutionPlan(id, intent, steps, parallel) ==
    [id |-> id, intent |-> intent, steps |-> steps, context |-> EmptyDict,
     parallel_execution |-> parallel]

\* f"{plan_id}_{n:03d}"
StepId(plan_id, n) == <<plan_id, n>>

\* dict.setdefault(k, v)
SetDefault(d, k, v) == IF k \in DOMAIN d THEN d ELSE d @@ (k :> v)

\* ExecutionPlanner._prepare_parameters
prepare_parameters(intent, capability) ==
    LET req == {capability.required_params[i] : i \in 1..Len(capability.required_params)}
        copied == [q \in req \cap DOMAIN intent.parameters |-> intent.parameters[q]]
        raw == Str(intent.raw_input.text)
    IN  CASE capability.name = "explain_code" ->
               SetDefault(SetDefault(copied, "detail_level", Str("normal")), "code", raw)
          [] capability.name = "review_code" ->
               SetDefault(SetDefault(copied, "focus",
                                     IF "focus" \in DOMAIN intent.parameters
                                     THEN intent.parameters["focus"] ELSE Str("all")),
                          "code", raw)
          [] capability.name = "generate_code" ->
               SetDefault(SetDefault(copied, "language",
                                     IF "language" \in DOMAIN intent.parameters
                                     THEN intent.parameters["language"] ELSE Str("python")),
                          "description", raw)
          [] OTHER -> copied

intent_tool_mapping(type) ==
    CASE type \in {"code_explain", "code_review", "code_generate", "code_refactor",
                   "code_debug"} -> {"code_analysis"}
      [] type \in {"file_read", "file_write", "file_list"} -> {"filesystem"}
      [] type \in {"web_search", "web_fetch"} -> {"web"}
      [] type = "task_complex" -> {"filesystem", "code_analysis", "web"}
      [] OTHER -> {"code_analysis"}

\* a faulty _filter_relevant_tools without the fallback to the first candidate
filter_without_fallback(intent, available_tools) ==
    LET Relevant(pr) == pr.capability.tool_type \in intent_tool_mapping(intent.type)
    IN  SelectSeq(available_tools, Relevant)

\* ExecutionPlanner._filter_relevant_tools
filter_relevant_tools(intent, available_tools) ==
    LET Relevant(pr) == pr.capability.tool_type \in intent_tool_mapping(intent.type)
        filtered == SelectSeq(available_tools, Relevant)
    IN  IF filtered = <<>> /\ available_tools # <<>>
        THEN << available_tools[1] >>
        ELSE filtered

\* ExecutionPlanner._create_complex_plan
create_complex_plan(intent, available_tools, plan_id) ==
    LET IsFile(pr) == pr.capability.tool_type = "filesystem"
        IsCode(pr) == pr.capability.tool_type = "code_analysis"
        file_tools == SelectSeq(available_tools, IsFile)
        code_tools == SelectSeq(available_tools, IsCode)
        reads == file_tools # <<>> /\ "file_path" \in DOMAIN intent.parameters
        read_step == IF reads
                     THEN << ExecutionStep(StepId(plan_id, 1), file_tools[1].tool,
                                           file_tools[1].capability,
                                           ("file_path" :> intent.parameters["file_path"]),
                                           <<>>) >>
                     ELSE <<>>
        step_counter == IF reads THEN 2 ELSE 1
        analysis_step == IF code_tools # <<>>
                         THEN << ExecutionStep(StepId(plan_id, step_counter),
                                   code_tools[1].tool, code_tools[1].capability,
                                   prepare_parameters(intent, code_tools[1].capability),
                                   IF step_counter > 1 THEN << StepId(plan_id, 1) >>
                                                       ELSE <<>>) >>
                         ELSE <<>>
    IN  ExecutionPlan(plan_id, intent, read_step \o analysis_step, FALSE)

\* a faulty _create_file_based_plan that leaves out the dependency edge
create_file_based_plan_unlinked(intent, available_tools, plan_id) ==
    LET p == create_complex_plan(intent, available_tools, plan_id)
    IN  [p EXCEPT !.steps = [i \in 1..Len(@) |-> [@[i] EXCEPT !.dependencies = <<>>]]]

\* ExecutionPlanner._create_file_based_plan
create_file_based_plan(intent, available_tools, plan_id) ==
    LET IsRead(pr) == pr.capability.tool_type = "filesystem" /\ pr.capability.name = "read_file"
        IsCode(pr) == pr.capability.tool_type = "code_analysis"
        file_tools == SelectSeq(available_tools, IsRead)
        analysis_tools == SelectSeq(available_tools, IsCode)
        steps == IF file_tools # <<>> /\ "file_path" \in DOMAIN intent.parameters
                 THEN << ExecutionStep(StepId(plan_id, 1), file_tools[1].tool,
                                       file_tools[1].capability,
                                       ("file_path" :> intent.parameters["file_path"]),
                                       <<>>) >>
                      \o (IF analysis_tools # <<>>
                          THEN << ExecutionStep(StepId(plan_id, 2), analysis_tools[1].tool,
                                    analysis_tools[1].capability,
                                    prepare_parameters(intent, analysis_tools[1].capability),
                                    << StepId(plan_id, 1) >>) >>
                          ELSE <<>>)
                 ELSE <<>>
    IN  ExecutionPlan(plan_id, intent, steps, FALSE)

\* ExecutionPlanner._create_code_to_file_plan
create_code_to_file_plan(intent, available_tools, plan_id) ==
    LET IsGen(pr) == pr.capability.tool_type = "code_analysis"
                        /\ pr.capability.name = "generate_code"
        IsWrite(pr) == pr.capability.tool_type = "filesystem"
                        /\ pr.capability.name = "write_file"
        code_tools == SelectSeq(available_tools, IsGen)
        file_tools == SelectSeq(available_tools, IsWrite)
        filename == extract_filename(intent.raw_input)
        generate_step == IF code_tools # <<>>
                         THEN << ExecutionStep(StepId(plan_id, 1), code_tools[1].tool,
                                   code_tools[1].capability,
                                   prepare_parameters(intent, code_tools[1].capability),
                                   <<>>) >>
                         ELSE <<>>
        save_step == IF file_tools # <<>> /\ filename # <<>>
                     THEN << ExecutionStep(StepId(plan_id, 2), file_tools[1].tool,
                               file_tools[1].capability,
                               ("file_path" :> filename[1])
                                   @@ ("content" :> Placeholder(StepId(plan_id, 1))),
                               << StepId(plan_id, 1) >>) >>
                     ELSE <<>>
    IN  ExecutionPlan(plan_id, intent, generate_step \o save_step, FALSE)

\* the default branch of create_plan: one step for every relevant tool
RECURSIVE DefaultSteps(_, _, _, _)
DefaultSteps(intent, relevant_tools, plan_id, i) ==
    IF i > Len(relevant_tools) THEN <<>>
    ELSE << ExecutionStep(StepId(plan_id, i), relevant_tools[i].tool,
                          relevant_tools[i].capability,
                          prepare_parameters(intent, relevant_tools[i].capability), <<>>) >>
         \o DefaultSteps(intent, relevant_tools, plan_id, i + 1)


\* a faulty flag that makes every plan of the default branch parallel
UseParallelAlways(relevant_tools) == TRUE

\* plan.parallel_execution = len(relevant_tools) > 1
UseParallel(relevant_tools) == Len(relevant_tools) > 1

\* a faulty create_plan that tries the shapes by intent type before it looks
\* at the number of candidates
create_plan_by_type_first(intent, available_tools, plan_id) ==
    IF intent.type = "task_complex"
    THEN create_complex_plan(intent, available_tools, plan_id)
    ELSE IF intent.type \in {"code_explain", "code_review"}
            /\ "file_path" \in DOMAIN intent.parameters
    THEN create_file_based_plan(intent, available_tools, plan_id)
    ELSE IF intent.type = "code_generate" /\ contains_filename(intent.raw_input)
    THEN create_code_to_file_plan(intent, available_tools, plan_id)
    ELSE LET relevant_tools == filter_relevant_tools(intent, available_tools)
         IN  ExecutionPlan(plan_id, intent,
                 DefaultSteps(intent, relevant_tools, plan_id, 1),
                 Len(relevant_tools) > 1)

\* ExecutionPlanner.create_plan: the plan it returns (and stores)
create_plan(intent, available_tools, plan_id) ==
    IF Len(available_tools) = 1
    THEN ExecutionPlan(plan_id, intent,
             << ExecutionStep(StepId(plan_id, 1), available_tools[1].tool,
                              available_tools[1].capability,
                              prepare_parameters(intent, available_tools[1].capability),
                              <<>>) >>, FALSE)
    ELSE IF intent.type = "task_complex"
    THEN create_complex_plan(intent, available_tools, plan_id)
    ELSE IF intent.type \in {"code_explain", "code_review"}
            /\ "file_path" \in DOMAIN intent.parameters
    THEN create_file_based_plan(intent, available_tools, plan_id)
    ELSE IF intent.type = "code_generate" /\ contains_filename(intent.raw_input)
    THEN create_code_to_file_plan(intent, available_tools, plan_id)
    ELSE LET relevant_tools == filter_relevant_tools(intent, available_tools)
         IN  ExecutionPlan(plan_id, intent,
                 DefaultSteps(intent, relevant_tools, plan_id, 1),
                 UseParallel(relevant_tools))

(***************************************************************************)
(* The state.                                                              *)
(***************************************************************************)
VARIABLES
    capabilities,   \* ToolRegistry.capabilities
    type_index,     \* ToolRegistry.type_index
    tools,          \* ToolRegistry.tools: the registered tools, in insertion order
    routing_stats,  \* ToolRouter.routing_stats
    active_plans,   \* ExecutionPlanner.active_plans: the ids (keys) of the stored plans
    requests,       \* the number of calls made so far (the source of plan ids)
    call,           \* the call in flight: its kind, its text, what was raised in it
    pc,             \* where the call in flight stands
    plan,           \* the ExecutionPlan of the call in flight
    next_steps,     \* execute_plan: the steps of this round still to run (indices)
    results,        \* execute_plan: its list of results
    returned        \* what route_request returned: <<list>>, <<>> before it returns

vars == <<tools, capabilities, type_index, routing_stats, active_plans, requests, call, pc, plan, next_steps,
          results, returned>>

NoText == Text("", TRUE, {}, Keywords(0, 0, 0), <<0, 0, 0, 0, 0>>, EmptyDict, "no")

NoIntent == Intent("unknown", 0, EmptyDict, NoText)

NoPlan == ExecutionPlan(0, NoIntent, <<>>, FALSE)

NoCall == [kind |-> "none", text |-> NoText, raised |-> FALSE, available_tools |-> <<>>,
           args |-> <<>>]

\* The registries routing starts with: what the startup code registered.
Registries ==
    { <<>>,
      <<"filesystem", "code_analysis", "web">>,
      <<"code_analysis", "linter">>,
      <<"filesystem", "writer">>,
      <<"linter", "code_analysis", "filesystem">> }

Init ==
    /\ tools \in Registries
    /\ capabilities = RegisterAll(EmptyRegistry, tools).capabilities
    /\ type_index = RegisterAll(EmptyRegistry, tools).type_index
    /\ routing_stats = [total_requests |-> 0, successful_routes |-> 0,
                        failed_routes |-> 0, intent_accuracy |-> EmptyDict]
    /\ active_plans = {}
    /\ requests = 0
    /\ call = NoCall
    /\ pc = "idle"
    /\ plan = NoPlan
    /\ next_steps = <<>>
    /\ results = <<>>
    /\ returned = <<>>

(***************************************************************************)
(* routing/planner.py: ExecutionStep.execute and the ExecutionPlan queries *)
(***************************************************************************)
Indices(p) == [i \in 1..Len(p.steps) |-> i]

CompletedIds(p) == {p.steps[i].id : i \in {j \in 1..Len(p.steps) : p.steps[j].status = "completed"}}

\* a faulty readiness test that ignores the dependencies
DependenciesIgnored(p, i) == TRUE

\* all(dep in completed_ids for dep in step.dependencies)
DependenciesMet(p, i) ==
    \A d \in 1..Len(p.steps[i].dependencies) : p.steps[i].dependencies[d] \in CompletedIds(p)

\* ExecutionPlan.get_next_steps (the indices of the ready steps, in plan order)
get_next_steps(p) ==
    LET Ready(i) == p.steps[i].status = "pending" /\ DependenciesMet(p, i)
    IN  SelectSeq(Indices(p), Ready)

\* ExecutionPlan.is_complete
is_complete(p) == \A i \in 1..Len(p.steps) : p.steps[i].status \in {"completed", "skipped"}

\* ExecutionPlan.has_failures
has_failures(p) == \E i \in 1..Len(p.steps) : p.steps[i].status = "failed"

\* a faulty can_retry that allows one retry too many
can_retry_once_more(s) == s.status = "failed" /\ s.retry_count <= s.max_retries

\* a faulty can_retry that forgets the status of the step
can_retry_any_status(s) == s.retry_count < s.max_retries

\* ExecutionStep.can_retry
can_retry(s) == s.status = "failed" /\ s.retry_count < s.max_retries

\* the key f"step_{id}_result" of plan.context; a placeholder "${name}" names
\* the key name = value[2:-1]
ContextKey(sid) == sid

\* isinstance(value, str) and value.startswith('${')
StartsWithToken(x) == x.k = "ref" \/ (x.k = "embed" /\ x.v \in {"suffix", "twice"})

\* isinstance(value, str) and value.endswith('}')
EndsWithToken(x) == x.k = "ref" \/ (x.k = "embed" /\ x.v \in {"prefix", "twice"})

\* var_name = value[2:-1]: the key of the step for the token alone, a name
\* that is the key of no step ("step_<id>_result}${step_<id>_result") for
\* the token written twice
VarName(x) == IF x.k = "ref" THEN ContextKey(x.id) ELSE NoId

\* a faulty _resolve_parameters that substitutes nothing
resolve_nothing(params, context) == params

\* a faulty _resolve_parameters that substitutes a token wherever it stands
resolve_embedded(params, context) ==
    [q \in DOMAIN params |->
        IF params[q].k \in {"ref", "embed"} /\ ContextKey(params[q].id) \in DOMAIN context
        THEN context[ContextKey(params[q].id)]
        ELSE params[q]]

\* ExecutionStep._resolve_parameters
resolve_parameters(params, context) ==
    [q \in DOMAIN params |->
        IF StartsWithToken(params[q]) /\ EndsWithToken(params[q])
        THEN IF VarName(params[q]) \in DOMAIN context
             THEN context[VarName(params[q])]
             ELSE params[q]
        ELSE params[q]]

\* What a tool's execute() does in one invocation: it returns data, returns
\* empty data, returns a failure result, or raises.
Outcomes == {"data", "empty", "fail", "raise"}

\* ExecutionStep.execute up to the await of tool.execute: the step is
\* running, its parameters are resolved and validated
BeginExecute(s, context) ==
    LET resolved == resolve_parameters(s.parameters, context)
        valid == validate_params(s.capability, resolved)
    IN  [s EXCEPT !.status = "running",
                  !.executions = @ + 1,
                  !.invocations = IF valid THEN @ + 1 ELSE @,
                  !.passed = IF valid THEN << resolved >> ELSE @]

\* whether the parameters the running step s resolved were valid
Validated(s, context) ==
    validate_params(s.capability, resolve_parameters(s.parameters, context))

\* ExecutionStep.execute from the return of tool.execute (or from the
\* ValueError of the validation) to its own return
EndExecute(s, valid, outcome) ==
    IF ~ valid
    THEN [s EXCEPT !.status = "failed", !.error = "Invalid parameters",
                   !.result = << ToolResult(FALSE, None, "Invalid parameters") >>]
    ELSE CASE outcome = "data" ->
                [s EXCEPT !.status = "completed",
                          !.result = << ToolResult(TRUE, Out(s.id), "") >>]
           [] outcome = "empty" ->
                [s EXCEPT !.status = "completed",
                          !.result = << ToolResult(TRUE, Str(""), "") >>]
           [] outcome = "fail" ->
                [s EXCEPT !.status = "failed", !.error = "error",
                          !.result = << ToolResult(FALSE, None, "error") >>]
           [] OTHER ->
                [s EXCEPT !.status = "failed", !.error = "error",
                          !.result = << ToolResult(FALSE, None, "error") >>]

\* whether an exception was raised inside this execute()
Raised(valid, outcome) == ~ valid \/ outcome = "raise"

(***************************************************************************)
(* routing/planner.py: ExecutionPlanner.execute_plan                       *)
(*   pc = "loop"     at the head of the while loop of the sequential mode  *)
(*   pc = "round"    in the for loop over next_steps, between two steps    *)
(*   pc = "step"     awaiting the execute() of the first of next_steps     *)
(*   pc = "gather"   awaiting asyncio.gather in the parallel mode          *)
(*   pc = "executed" execute_plan has returned results                     *)
(***************************************************************************)
\* entering execute_plan: results = []
EnterExecute(p) ==
    /\ plan' = p
    /\ results' = <<>>
    /\ next_steps' = <<>>
    /\ pc' = IF p.parallel_execution THEN "gather" ELSE "loop"

\* a faulty end of execute_plan that keeps the plan
KeepPlan(ids, p) == ids

\* the end of execute_plan: the plan is removed from active_plans and the
\* results are returned
CleanUp(ids, p) == IF p.id \in ids THEN ids \ {p.id} ELSE ids

ReturnResults(res) ==
    /\ active_plans' = CleanUp(active_plans, plan)
    /\ results' = res
    /\ next_steps' = <<>>
    /\ pc' = "executed"

\* while not plan.is_complete(): the plan is complete, the loop ends
SeqComplete ==
    /\ pc = "loop"
    /\ is_complete(plan)
    /\ ReturnResults(results)
    /\ UNCHANGED <<tools, capabilities, type_index, routing_stats, requests, call, plan, returned>>

\* a faulty selection that retries only the first retryable step
RetryFirstOnly(p) ==
    {i \in 1..Len(p.steps) :
        can_retry(p.steps[i]) /\ \A j \in 1..(i - 1) : ~ can_retry(p.steps[j])}

\* retry_steps = [step for step in plan.steps if step.can_retry()]
RetrySteps(p) == {i \in 1..Len(p.steps) : can_retry(p.steps[i])}

\* step.retry_count += 1; step.status = StepStatus.PENDING
Reset(s) == [s EXCEPT !.retry_count = @ + 1, !.status = "pending"]

\* no step is ready and there is a failed step to retry: retry_count += 1,
\* status = PENDING for each of them; the for loop then runs over no step
SeqRetry ==
    /\ pc = "loop"
    /\ ~ is_complete(plan)
    /\ get_next_steps(plan) = <<>>
    /\ has_failures(plan)
    /\ RetrySteps(plan) # {}
    /\ plan' = [plan EXCEPT !.steps =
                   [i \in 1..Len(plan.steps) |->
                       IF i \in RetrySteps(plan)
                       THEN Reset(plan.steps[i])
                       ELSE plan.steps[i]]]
    /\ UNCHANGED <<tools, capabilities, type_index, routing_stats, active_plans, requests, call, pc, next_steps,
                   results, returned>>

\* a faulty loop that breaks only when a failed step is out of retries
BreakOnFailuresOnly(p) == has_failures(p) /\ RetrySteps(p) = {}

\* the two break statements of the loop: none of the failed steps can be
\* retried, or no step has failed and the remaining steps are blocked
Break(p) ==
    \/ has_failures(p) /\ RetrySteps(p) = {}
    \/ ~ has_failures(p)

\* no step is ready and the loop breaks
SeqStuck ==
    /\ pc = "loop"
    /\ ~ is_complete(plan)
    /\ get_next_steps(plan) = <<>>
    /\ Break(plan)
    /\ ReturnResults(results)
    /\ UNCHANGED <<tools, capabilities, type_index, routing_stats, requests, call, plan, returned>>

\* some steps are ready: they are the steps of this round
SeqRound ==
    /\ pc = "loop"
    /\ ~ is_complete(plan)
    /\ get_next_steps(plan) # <<>>
    /\ next_steps' = get_next_steps(plan)
    /\ pc' = "round"
    /\ UNCHANGED <<tools, capabilities, type_index, routing_stats, active_plans, requests, call, plan, results,
                   returned>>

\* result = await step.execute(plan.context), up to the await of the tool
SeqBegin ==
    /\ pc = "round"
    /\ next_steps # <<>>
    /\ plan' = [plan EXCEPT !.steps[Head(next_steps)] = BeginExecute(@, plan.context)]
    /\ pc' = "step"
    /\ UNCHANGED <<tools, capabilities, type_index, routing_stats, active_plans, requests, call, next_steps,
                   results, returned>>

\* a faulty context update that never writes
UpdateContextNever(context, s, result) == context

\* if result.success and result.data: plan.context[f"step_{id}_result"] = data
UpdateContext(context, s, result) ==
    IF result.success /\ Truthy(result.data)
    THEN (ContextKey(s.id) :> result.data) @@ context
    ELSE context

\* a faulty for loop that leaves the round when a step has failed
RemainingUnlessFailed(steps, result) == IF result.success THEN Tail(steps) ELSE <<>>

\* for step in next_steps: the steps of the round after this one, whatever
\* its result
Remaining(steps, result) == Tail(steps)


\* a faulty loop that records the result of a step's first attempt only
AppendFirstAttempt(res, s) ==
    IF s.retry_count > 0 THEN res ELSE Append(res, s.result[1])

\* results.append(result), the result execute() returned for step s
AppendResult(res, s) == Append(res, s.result[1])

\* the tool returns (or raises); the step's result is appended to results
\* and, when it has data, written to the context
SeqEnd(outcome) ==
    /\ pc = "step"
    /\ LET i == Head(next_steps)
           valid == Validated(plan.steps[i], plan.context)
           done == EndExecute(plan.steps[i], valid, outcome)
       IN  /\ plan' = [plan EXCEPT !.steps[i] = done,
                                   !.context = UpdateContext(@, done, done.result[1])]
           /\ results' = AppendResult(results, done)
           /\ call' = [call EXCEPT !.raised = @ \/ Raised(valid, outcome)]
           /\ next_steps' = Remaining(next_steps, done.result[1])
           /\ pc' = IF Remaining(next_steps, done.result[1]) = <<>> THEN "loop"
                                                                     ELSE "round"
    /\ UNCHANGED <<tools, capabilities, type_index, routing_stats, active_plans, requests, returned>>


\* a faulty parallel mode that hands the plan's context to execute()
ParallelContextShared(context) == context

\* tasks.append(step.execute()): context is None and execute() resolves the
\* parameters against (context or {})
ParallelContext(context) == EmptyDict

\* the parallel mode: the task of the next step starts, step.execute() with
\* no context, up to the await of its tool
ParBegin ==
    /\ pc = "gather"
    /\ \E i \in 1..Len(plan.steps) :
          /\ plan.steps[i].status = "pending"
          /\ \A j \in 1..(i - 1) : plan.steps[j].status # "pending"
          /\ plan' = [plan EXCEPT !.steps[i] = BeginExecute(@, ParallelContext(plan.context))]
    /\ UNCHANGED <<tools, capabilities, type_index, routing_stats, active_plans, requests, call, pc, next_steps,
                   results, returned>>

\* the parallel mode: the tool of a running step returns (or raises)
ParEnd(i, outcome) ==
    /\ pc = "gather"
    /\ i \in 1..Len(plan.steps)
    /\ plan.steps[i].status = "running"
    /\ LET valid == Validated(plan.steps[i], ParallelContext(plan.context))
       IN  /\ plan' = [plan EXCEPT !.steps[i] = EndExecute(@, valid, outcome)]
           /\ call' = [call EXCEPT !.raised = @ \/ Raised(valid, outcome)]
    /\ UNCHANGED <<tools, capabilities, type_index, routing_stats, active_plans, requests, pc, next_steps,
                   results, returned>>

\* a faulty collection that keeps the results of the completed steps only
GatherCompleted(p) ==
    LET Done(i) == p.steps[i].status = "completed"
        done == SelectSeq([i \in 1..Len(p.steps) |-> i], Done)
    IN  [n \in 1..Len(done) |-> p.steps[done[n]].result[1]]

\* for step, result in zip(plan.steps, step_results): results.append(step.result)
GatherResults(p) == [i \in 1..Len(p.steps) |-> p.steps[i].result[1]]

\* the parallel mode: gather returns once every task is done
ParCollect ==
    /\ pc = "gather"
    /\ \A i \in 1..Len(plan.steps) : plan.steps[i].status \in {"completed", "failed"}
    /\ ReturnResults(GatherResults(plan))
    /\ UNCHANGED <<tools, capabilities, type_index, routing_stats, requests, call, plan, returned>>

\* the steps of the sequential mode
ExecuteSequential ==
    \/ SeqComplete
    \/ SeqRetry
    \/ SeqStuck
    \/ SeqRound
    \/ SeqBegin
    \/ \E o \in Outcomes : SeqEnd(o)

\* the steps of the parallel mode
ExecuteParallel ==
    \/ ParBegin
    \/ \E i \in 1..Len(plan.steps), o \in Outcomes : ParEnd(i, o)
    \/ ParCollect

Execute ==
    \/ ExecuteSequential
    \/ ExecuteParallel

(***************************************************************************)
(* routing/router.py: ToolRouter.route_request                             *)
(***************************************************************************)
\* for tool, capability in file_tools: append it unless already in the list
RECURSIVE AppendMissing(_, _)
AppendMissing(available, file_tools) ==
    IF file_tools = <<>> THEN available
    ELSE AppendMissing(
             IF \E i \in 1..Len(available) : available[i] = Head(file_tools)
             THEN available ELSE Append(available, Head(file_tools)),
             Tail(file_tools))

\* steps 1 and 2 of route_request: the candidate (tool, capability) pairs
AvailableTools(registered, t) ==
    LET intent == classify(t, NoContext)
        found == find_tools_for_intent(registered, intent.type, intent.confidence)
    IN  IF intent.type = "code_generate" /\ contains_filename(t)
        THEN AppendMissing(found,
                 find_tools_for_intent(registered, "file_write", intent.confidence))
        ELSE found

AnySuccess(res) == \E i \in 1..Len(res) : res[i].success


\* a faulty statistics update that counts an attempt only for a success
UpdateStatsOnSuccess(stats, intent_key, res) ==
    LET old == IF intent_key \in DOMAIN stats.intent_accuracy
               THEN stats.intent_accuracy[intent_key]
               ELSE [attempts |-> 0, successes |-> 0]
        new == IF AnySuccess(res)
               THEN [attempts |-> old.attempts + 1, successes |-> old.successes + 1]
               ELSE old
    IN  [stats EXCEPT
            !.successful_routes = IF AnySuccess(res) THEN @ + 1 ELSE @,
            !.failed_routes = IF AnySuccess(res) THEN @ ELSE @ + 1,
            !.intent_accuracy = (intent_key :> new) @@ @]

\* the statistics update after execute_plan returned
UpdateStats(stats, intent_key, res) ==
    LET old == IF intent_key \in DOMAIN stats.intent_accuracy
               THEN stats.intent_accuracy[intent_key]
               ELSE [attempts |-> 0, successes |-> 0]
        new == [attempts |-> old.attempts + 1,
                successes |-> IF AnySuccess(res) THEN old.successes + 1
                                                 ELSE old.successes]
    IN  [stats EXCEPT
            !.successful_routes = IF AnySuccess(res) THEN @ + 1 ELSE @,
            !.failed_routes = IF AnySuccess(res) THEN @ ELSE @ + 1,
            !.intent_accuracy = (intent_key :> new) @@ @]

\* the statistics update of the except branch
StatsOnException(stats) == [stats EXCEPT !.failed_routes = @ + 1]

\* the statistics update of the return for an empty candidate list
StatsOnNoTools(stats) == stats

NoToolsResult == ToolResult(FALSE, None, "No tools available to handle")

RoutingErrorResult == ToolResult(FALSE, None, "Routing error")

\* a faulty test that never sees the empty candidate list
NeverNoCandidates(available_tools) == FALSE

\* if not available_tools
NoCandidates(available_tools) == available_tools = <<>>

\* what the branch for an empty candidate list returns
OnNoTools == << NoToolsResult >>

\* a faulty handler that swallows the exception and returns no result
OnExceptionSilent == <<>>

\* what the except branch returns
OnException == << RoutingErrorResult >>

\* route_request(t), called without a context, from its entry to its first
\* await of a tool, or to its return when it returns before that
RouteRequest(t) ==
    /\ pc = "idle"
    /\ requests < MaxRequests
    /\ requests' = requests + 1
    /\ LET counted == [routing_stats EXCEPT !.total_requests = @ + 1]
       IN  \/ \* classify raises: the except branch
              /\ ClassifyRaises(t)
              /\ routing_stats' = StatsOnException(counted)
              /\ call' = [NoCall EXCEPT !.kind = "route", !.text = t, !.raised = TRUE]
              /\ returned' = << OnException >>
              /\ pc' = "returned"
              /\ UNCHANGED <<active_plans, plan, next_steps, results>>
           \/ \* no candidate pair
              /\ ~ ClassifyRaises(t)
              /\ NoCandidates(AvailableTools(tools, t))
              /\ routing_stats' = StatsOnNoTools(counted)
              /\ call' = [NoCall EXCEPT !.kind = "route", !.text = t,
                                         !.available_tools = AvailableTools(tools, t)]
              /\ returned' = << OnNoTools >>
              /\ pc' = "returned"
              /\ UNCHANGED <<active_plans, plan, next_steps, results>>
           \/ \* create_plan, then execute_plan is entered
              /\ ~ ClassifyRaises(t)
              /\ ~ NoCandidates(AvailableTools(tools, t))
              /\ routing_stats' = counted
              /\ call' = [NoCall EXCEPT !.kind = "route", !.text = t,
                                         !.available_tools = AvailableTools(tools, t)]
              /\ active_plans' = active_plans \cup {requests + 1}
              /\ EnterExecute(create_plan(classify(t, NoContext), AvailableTools(tools, t),
                                          requests + 1))
              /\ UNCHANGED returned
    /\ UNCHANGED <<tools, capabilities, type_index>>

\* execute_plan returned to route_request: statistics, return results
RouteFinish ==
    /\ pc = "executed"
    /\ call.kind = "route"
    /\ routing_stats' = UpdateStats(routing_stats, plan.intent.type, results)
    /\ returned' = << results >>
    /\ pc' = "returned"
    /\ UNCHANGED <<tools, capabilities, type_index, active_plans, requests, call, plan, next_steps, results>>

\* the caller has taken what the call returned: no call is in flight
Drop ==
    /\ \/ pc = "returned"
       \/ pc = "executed" /\ call.kind \in {"execute", "create"}
    /\ call' = NoCall
    /\ pc' = "idle"
    /\ plan' = NoPlan
    /\ next_steps' = <<>>
    /\ results' = <<>>
    /\ returned' = <<>>
    /\ UNCHANGED <<tools, capabilities, type_index, routing_stats, active_plans, requests>>

Next ==
    \/ pc = "idle" /\ \E t \in Texts : RouteRequest(t)
    \/ Execute
    \/ RouteFinish
    \/ Drop

Spec == Init /\ [][Next]_vars

(***************************************************************************)
(* routing/router.py: ToolRouter.debug_routing, called between requests    *)
(***************************************************************************)
\* a faulty debug_routing that counts the call as a request
StatsCounted(stats) == [stats EXCEPT !.total_requests = @ + 1]

\* debug_routing never touches self.routing_stats
StatsOnDebug(stats) == stats

\* the debug_info dictionary: intent, available_tools and, when a plan was
\* built, the layout of its steps
DebugInfo(intent, available_tools, p) ==
    [intent |-> intent, available_tools |-> available_tools,
     execution_plan |->
         IF available_tools = <<>> THEN <<>>
         ELSE << [total_steps |-> Len(p.steps),
                  parallel_execution |-> p.parallel_execution,
                  steps |-> [i \in 1..Len(p.steps) |->
                                [id |-> p.steps[i].id,
                                 tool_name |-> ToolName(p.steps[i].tool),
                                 capability_name |-> p.steps[i].capability.name,
                                 parameters |-> p.steps[i].parameters,
                                 dependencies |-> p.steps[i].dependencies]]] >>]

\* debug_routing(t): classification (an exception of which reaches the
\* caller), candidate lookup, create_plan when there is a candidate
DebugRouting(t) ==
    /\ pc = "idle"
    /\ requests < MaxRequests
    /\ requests' = requests + 1
    /\ routing_stats' = StatsOnDebug(routing_stats)
    /\ \/ /\ ClassifyRaises(t)
          /\ call' = [NoCall EXCEPT !.kind = "debug", !.text = t, !.raised = TRUE]
          /\ returned' = <<>>
          /\ UNCHANGED <<active_plans, plan>>
       \/ /\ ~ ClassifyRaises(t)
          /\ AvailableTools(tools, t) = <<>>
          /\ call' = [NoCall EXCEPT !.kind = "debug", !.text = t]
          /\ returned' = << DebugInfo(classify(t, NoContext), <<>>, NoPlan) >>
          /\ UNCHANGED <<active_plans, plan>>
       \/ /\ ~ ClassifyRaises(t)
          /\ AvailableTools(tools, t) # <<>>
          /\ call' = [NoCall EXCEPT !.kind = "debug", !.text = t,
                                     !.available_tools = AvailableTools(tools, t)]
          /\ plan' = create_plan(classify(t, NoContext), AvailableTools(tools, t),
                                 requests + 1)
          /\ active_plans' = active_plans \cup {requests + 1}
          /\ returned' = << DebugInfo(classify(t, NoContext), AvailableTools(tools, t),
                                      plan') >>
    /\ pc' = "returned"
    /\ UNCHANGED <<tools, capabilities, type_index, next_steps, results>>

DebugNext ==
    \/ pc = "idle" /\ \E t \in Texts : RouteRequest(t)
    \/ pc = "idle" /\ \E t \in Texts : DebugRouting(t)
    \/ Execute
    \/ RouteFinish
    \/ Drop

DebugSpec == Init /\ [][DebugNext]_vars

(***************************************************************************)
(* The planner alone: a caller builds an ExecutionPlan by hand (a public   *)
(* dataclass) and hands it to ExecutionPlanner.execute_plan.               *)
(***************************************************************************)
WriteFile == ToolCapability("write_file", <<"file_path", "content">>, "filesystem",
                            DefaultThreshold)

\* the dependencies of step i of n in a plan of the given shape
HandDependencies(plan_id, shape, i, n) ==
    CASE shape = "chain" -> IF i > 1 THEN << StepId(plan_id, i - 1) >> ELSE <<>>
      [] shape = "dangling" -> IF i > 1 THEN << StepId(plan_id, i - 1) >>
                                        ELSE << StepId(plan_id, n + 1) >>
      [] shape = "cycle" -> IF i > 1 THEN << StepId(plan_id, i - 1) >>
                                     ELSE << StepId(plan_id, n) >>
      [] OTHER -> <<>>

\* the parameters of step i of n: content is a literal, a reference to the
\* result of the step before, a longer string around such a reference, or
\* (last step) missing
HandParameters(plan_id, refs, i, n) ==
    LET path == ("file_path" :> Str("foo.py"))
    IN  CASE refs = "ref" /\ i > 1 ->
               path @@ ("content" :> Placeholder(StepId(plan_id, i - 1)))
          [] refs \in {"prefix", "suffix", "twice"} /\ i > 1 ->
               path @@ ("content" :> Embedded(StepId(plan_id, i - 1), refs))
          [] refs = "missing" /\ i = n -> path
          [] OTHER -> path @@ ("content" :> Str("text"))

\* a plan of n steps, each with max_retries = retries
HandPlan(plan_id, n, shape, refs, retries, parallel) ==
    ExecutionPlan(plan_id, NoIntent,
        [i \in 1..n |->
            [ExecutionStep(StepId(plan_id, i), "filesystem", WriteFile,
                           HandParameters(plan_id, refs, i, n),
                           HandDependencies(plan_id, shape, i, n))
                EXCEPT !.max_retries = retries]],
        parallel)

HandPlans(plan_id) ==
    { HandPlan(plan_id, n, shape, refs, retries, parallel) :
        n \in 1..MaxSteps, shape \in {"none", "chain", "dangling", "cycle"},
        refs \in {"literal", "ref", "missing"}, retries \in {0, 1, DefaultMaxRetries},
        parallel \in BOOLEAN }

\* the caller calls execute_plan(p)
ExecutePlan(p) ==
    /\ pc = "idle"
    /\ requests < MaxRequests
    /\ requests' = requests + 1
    /\ call' = [NoCall EXCEPT !.kind = "execute"]
    /\ EnterExecute(p)
    /\ UNCHANGED <<tools, capabilities, type_index, routing_stats, active_plans, returned>>

PlannerInit == Init /\ tools = <<>>

PlannerNext ==
    \/ pc = "idle" /\ \E p \in HandPlans(requests + 1) : ExecutePlan(p)
    \/ Execute
    \/ Drop

PlannerSpec == PlannerInit /\ [][PlannerNext]_vars

\* The planner handed sequential plans whose steps refer to the result of
\* the step before, by the token alone or inside a longer string.
ContextPlans(plan_id) ==
    { HandPlan(plan_id, n, shape, refs, retries, FALSE) :
        n \in 2..MaxSteps, shape \in {"none", "chain"},
        refs \in {"ref", "prefix", "suffix", "twice"}, retries \in {0, 1} }

ContextNext ==
    \/ pc = "idle" /\ \E p \in ContextPlans(requests + 1) : ExecutePlan(p)
    \/ ExecuteSequential
    \/ Drop

ContextSpec == PlannerInit /\ [][ContextNext]_vars


\* The planner handed parallel plans, with dependencies or without, whose
\* context is empty or already holds a result for the first step.
ParallelPlans(plan_id) ==
    { [HandPlan(plan_id, n, shape, refs, retries, TRUE) EXCEPT !.context = context] :
        n \in 1..MaxSteps, shape \in {"none", "chain", "cycle"},
        refs \in {"literal", "ref", "missing"}, retries \in {0, DefaultMaxRetries},
        context \in {EmptyDict, (ContextKey(StepId(plan_id, 1)) :> Str("kept"))} }

ParallelNext ==
    \/ pc = "idle" /\ \E p \in ParallelPlans(requests + 1) : ExecutePlan(p)
    \/ ExecuteParallel
    \/ Drop

ParallelSpec == PlannerInit /\ [][ParallelNext]_vars

\* The planner handed sequential plans of every dependency shape, with no
\* retry or two.
SequentialPlans(plan_id) ==
    { HandPlan(plan_id, n, shape, refs, retries, FALSE) :
        n \in 1..MaxSteps, shape \in {"none", "chain", "dangling", "cycle"},
        refs \in {"literal", "missing"}, retries \in {0, 2} }

SequentialNext ==
    \/ pc = "idle" /\ \E p \in SequentialPlans(requests + 1) : ExecutePlan(p)
    \/ ExecuteSequential
    \/ Drop

\* execute_plan is a coroutine that the event loop keeps running, and every
\* awaited tool.execute returns or raises: a step of execute_plan that can
\* be taken is taken.
PlannerFairSpec ==
    PlannerInit /\ [][SequentialNext]_vars /\ WF_vars(ExecuteSequential)

(***************************************************************************)
(* The planner called with candidate lists of the caller's choosing:       *)
(* create_plan(intent, available_tools), then execute_plan of the plan.    *)
(***************************************************************************)
MaxCandidates == 2

\* the pair (tool, capability) of the tool's first capability of that name
PairOf(t, name) ==
    LET caps == get_capabilities(t)
        at == {i \in 1..Len(caps) : caps[i].name = name}
    IN  [tool |-> t, capability |-> caps[CHOOSE i \in at : \A j \in at : i <= j]]

CandidatePairs ==
    { PairOf("filesystem", "read_file"), PairOf("filesystem", "write_file"),
      PairOf("code_analysis", "explain_code"), PairOf("code_analysis", "generate_code"),
      PairOf("web", "search_web"), PairOf("writer", "write_file") }

CandidateLists == UNION { [1..n -> CandidatePairs] : n \in 0..MaxCandidates }

\* the intents the caller passes: what the classifier makes of the texts
Intents == { classify(t, NoContext) : t \in {x \in Texts : x.is_str} }

\* the caller calls create_plan(intent, available_tools)
CreatePlan(intent, available_tools) ==
    /\ pc = "idle"
    /\ requests < MaxRequests
    /\ requests' = requests + 1
    /\ call' = [NoCall EXCEPT !.kind = "create", !.text = intent.raw_input,
                              !.available_tools = available_tools]
    /\ plan' = create_plan(intent, available_tools, requests + 1)
    /\ active_plans' = active_plans \cup {requests + 1}
    /\ pc' = "created"
    /\ UNCHANGED <<tools, capabilities, type_index, routing_stats, next_steps, results,
                   returned>>

\* the caller calls execute_plan of the plan create_plan returned
ExecuteCreated ==
    /\ pc = "created"
    /\ EnterExecute(plan)
    /\ UNCHANGED <<tools, capabilities, type_index, routing_stats, active_plans, requests,
                   call, returned>>

CreateNext ==
    \/ pc = "idle" /\ \E i \in Intents, a \in CandidateLists : CreatePlan(i, a)
    \/ ExecuteCreated
    \/ Execute
    \/ Drop

CreatePlanSpec == PlannerInit /\ [][CreateNext]_vars

(***************************************************************************)
(* The registry called by its owner: register_tool, unregister_tool and    *)
(* find_tools_for_intent in any order.  call.args holds the arguments of   *)
(* the last call (for a lookup also how many times in a row it was made,   *)
(* up to 2), returned what it returned.                                    *)
(***************************************************************************)
MaxTools == 3

\* the tool objects the owner registers
RegistryObjs == {"filesystem", "code_analysis", "linter", "linter_v2", "writer"}

ToolNames == { ToolName(t) : t \in RegistryObjs } \cup {"unknown_tool"}

LookupIntents == {"code_explain", "file_write", "task_complex"}

LookupConfidences == {6, 7, 9}

\* registry.register_tool(t)
Register(t) ==
    /\ pc = "idle"
    /\ IsRegistered(tools, ToolName(t)) \/ Len(tools) < MaxTools
    /\ LET reg == register_tool(Registry(tools, capabilities, type_index), t)
       IN  /\ tools' = reg.tools
           /\ capabilities' = reg.capabilities
           /\ type_index' = reg.type_index
    /\ call' = [NoCall EXCEPT !.kind = "register", !.args = << t >>]
    /\ returned' = <<>>
    /\ UNCHANGED <<routing_stats, active_plans, requests, pc, plan, next_steps, results>>

\* registry.unregister_tool(name)
Unregister(name) ==
    /\ pc = "idle"
    /\ LET reg == unregister_tool(Registry(tools, capabilities, type_index), name)
       IN  /\ tools' = reg.tools
           /\ capabilities' = reg.capabilities
           /\ type_index' = reg.type_index
    /\ call' = [NoCall EXCEPT !.kind = "unregister", !.args = << name >>]
    /\ returned' = << unregister_returns(Registry(tools, capabilities, type_index), name) >>
    /\ UNCHANGED <<routing_stats, active_plans, requests, pc, plan, next_steps, results>>

\* registry.find_tools_for_intent(intent, confidence)
Lookup(intent, confidence) ==
    /\ pc = "idle"
    /\ LET again == /\ call.kind = "lookup"
                    /\ call.args[1] = intent
                    /\ call.args[2] = confidence
       IN  call' = [NoCall EXCEPT !.kind = "lookup",
                                  !.args = << intent, confidence,
                                              IF again THEN 2 ELSE 1 >>]
    /\ returned' = << find_tools_for_intent(tools, intent, confidence) >>
    /\ tools' = tools_after_lookup(tools)
    /\ UNCHANGED <<capabilities, type_index, routing_stats, active_plans, requests, pc,
                   plan, next_steps, results>>

RegistryNext ==
    \/ \E t \in RegistryObjs : Register(t)
    \/ \E name \in ToolNames : Unregister(name)
    \/ \E intent \in LookupIntents, confidence \in LookupConfidences :
          Lookup(intent, confidence)

RegistrySpec == PlannerInit /\ [][RegistryNext]_vars

(***************************************************************************)
(* The classifier called by its owner: IntentClassifier.classify(text,      *)
(* context).  call.text and call.args hold the arguments of the last call, *)
(* returned the Intent it returned (nothing when it raised).               *)
(***************************************************************************)
\* The texts handed to the classifier: those of the router and texts in which
\* patterns of several intent types or several keyword lists occur.
ClassifyTexts ==
    Texts \cup
    { Text("task fix foo.py", TRUE,
           {<<"code_debug", 1>>, <<"task_complex", 1>>, <<"task_complex", 3>>},
           Keywords(0, 1, 0), <<0, 0, 0, 0, 0>>, FooPy, "full"),
      Text("task explain foo.py", TRUE,
           {<<"code_explain", 2>>, <<"task_complex", 1>>, <<"task_complex", 3>>},
           Keywords(0, 1, 0), <<0, 1, 0, 0, 0>>, FooPy, "full"),
      Text("explain this code and create foo.py", TRUE,
           {<<"code_explain", 1>>, <<"code_explain", 2>>, <<"code_explain", 3>>,
            <<"file_write", 5>>, <<"task_complex", 7>>},
           Keywords(1, 1, 0), <<1, 1, 1, 0, 0>>, FooPy, "full"),
      Text("fix the bug then read notes.txt", TRUE,
           {<<"code_debug", 1>>, <<"file_read", 2>>},
           Keywords(0, 1, 0), <<0, 0, 0, 1, 0>>, ("file_path" :> Str("notes.txt")), "full"),
      Text("show settings", TRUE, {<<"config_manage", 1>>},
           Keywords(0, 0, 0), <<1, 0, 0, 1, 1>>, EmptyDict, "no"),
      Text("what is up", TRUE, {}, Keywords(0, 0, 0), <<1, 0, 0, 0, 0>>, EmptyDict, "no"),
      Text("please describe what does it do", TRUE, {},
           Keywords(0, 0, 0), <<1, 2, 0, 0, 0>>, EmptyDict, "no"),
      Text("how to make and build and create", TRUE, {},
           Keywords(0, 0, 0), <<1, 0, 3, 0, 0>>, EmptyDict, "no"),
      Text("xyz", TRUE, {}, Keywords(0, 0, 0), <<0, 0, 0, 0, 0>>, EmptyDict, "no") }

\* classify(t, context)
Classify(t, context) ==
    /\ pc = "idle"
    /\ requests < MaxRequests
    /\ requests' = requests + 1
    /\ call' = [NoCall EXCEPT !.kind = "classify", !.text = t,
                               !.raised = ClassifyRaises(t), !.args = << context >>]
    /\ returned' = IF ClassifyRaises(t) THEN <<>> ELSE << classify(t, context) >>
    /\ pc' = "returned"
    /\ UNCHANGED <<tools, capabilities, type_index, routing_stats, active_plans, plan,
                   next_steps, results>>

ClassifyNext ==
    \/ pc = "idle" /\ \E t \in ClassifyTexts, context \in SUBSET ContextKeys :
                          Classify(t, context)
    \/ Drop

ClassifySpec == PlannerInit /\ [][ClassifyNext]_vars

(***************************************************************************)
(* Properties.                                                             *)
(***************************************************************************)
Steps == 1..Len(plan.steps)

Sequential == plan # NoPlan /\ ~ plan.parallel_execution

Parallel == plan # NoPlan /\ plan.parallel_execution

\* a list of well-formed failed results, each with an error string
FailedWithError(r) == ~ r.success /\ r.error # ""

\* C1 (as claimed): route_request never raises, and an exception raised
\* anywhere during routing (in the classifier, or in a tool of a step) makes
\* it return exactly one failed ToolResult that describes the routing error.
C1_AnyExceptionYieldsOneRoutingError ==
    (pc = "returned" /\ call.raised) => returned = << << RoutingErrorResult >> >>

\* C1 (amended): route_request always returns a list of ToolResult; an
\* exception that reaches its own handler (here: raised by the classifier)
\* yields exactly one failed ToolResult describing the routing error, while
\* an exception raised inside a step is kept by the step and shows as the
\* failed result of that step, with its error, in the returned list.
C1_ExceptionsBecomeResults ==
    pc = "returned" =>
        /\ Len(returned) = 1
        /\ \A i \in 1..Len(returned[1]) : returned[1][i].success \in BOOLEAN
        /\ ClassifyRaises(call.text) =>
              /\ returned[1] = << RoutingErrorResult >>
              /\ plan = NoPlan
        /\ (call.raised /\ ~ ClassifyRaises(call.text)) =>
              /\ \E i \in 1..Len(returned[1]) : FailedWithError(returned[1][i])
              /\ \A i \in 1..Len(returned[1]) : returned[1][i] # RoutingErrorResult

C1_Witness ==
    pc = "returned" /\ ClassifyRaises(call.text) /\ returned = << << RoutingErrorResult >> >>

\* C2: whenever route_request returns and no returned result is a success,
\* the returned list is non-empty and holds a failed result with an error.
C2_FailuresAreReported ==
    (pc = "returned" /\ ~ AnySuccess(returned[1])) =>
        /\ returned[1] # <<>>
        /\ \E i \in 1..Len(returned[1]) : FailedWithError(returned[1][i])

\* C3: when a sequential execute_plan returns, every step that was executed
\* and never succeeded is failed, was executed once and retried exactly
\* max_retries times (retry_count = max_retries), so the plan has failures
\* and is not complete.
C3_RetryBound ==
    (pc = "executed" /\ Sequential) =>
        \A i \in Steps :
            (plan.steps[i].executions > 0 /\ plan.steps[i].status # "completed") =>
                /\ plan.steps[i].status = "failed"
                /\ plan.steps[i].executions = 1 + plan.steps[i].max_retries
                /\ plan.steps[i].retry_count = plan.steps[i].max_retries
                /\ has_failures(plan)
                /\ ~ is_complete(plan)

C3_Witness ==
    /\ pc = "executed"
    /\ Sequential
    /\ \E i \in Steps :
          /\ plan.steps[i].status = "failed"
          /\ plan.steps[i].max_retries = DefaultMaxRetries
          /\ plan.steps[i].invocations = 1 + DefaultMaxRetries

\* C4: in sequential mode execute() is entered for a step only when the step
\* is pending and each of its dependencies is the id of a completed step of
\* the same plan.
C4_DependencyReadiness ==
    [][(plan'.id = plan.id /\ Sequential) =>
          \A i \in Steps :
              plan'.steps[i].executions > plan.steps[i].executions =>
                  /\ plan.steps[i].status = "pending"
                  /\ \A d \in 1..Len(plan.steps[i].dependencies) :
                        \E j \in Steps :
                            /\ plan.steps[j].id = plan.steps[i].dependencies[d]
                            /\ plan.steps[j].status = "completed"]_vars

C4_Witness ==
    /\ Sequential
    /\ \E i \in Steps :
          /\ plan.steps[i].dependencies # <<>>
          /\ plan.steps[i].invocations > 0

\* C5: a step's status changes only pending -> running, running ->
\* completed, running -> failed, and failed -> pending; the last only with
\* retry_count < max_retries and together with retry_count += 1; nothing
\* leaves completed and nothing becomes skipped.
C5_StepStateMachine ==
    [][plan'.id = plan.id =>
          \A i \in Steps :
              LET old == plan.steps[i]
                  new == plan'.steps[i]
              IN  /\ new.status # "skipped"
                  /\ new.status # old.status =>
                        \/ old.status = "pending" /\ new.status = "running"
                        \/ old.status = "running" /\ new.status \in {"completed", "failed"}
                        \/ /\ old.status = "failed"
                           /\ new.status = "pending"
                           /\ old.retry_count < old.max_retries
                           /\ new.retry_count = old.retry_count + 1
                  /\ new.status = old.status => new.retry_count = old.retry_count]_vars

C5_Witness ==
    \E i \in Steps : plan.steps[i].retry_count > 0 /\ plan.steps[i].status = "completed"

\* B's parameter q is exactly "${step_<A.id>_result}", B depends on A, A is
\* completed and B's tool has been invoked
Threads(a, b, q) ==
    /\ Sequential
    /\ plan.steps[a].status = "completed"
    /\ \E d \in 1..Len(plan.steps[b].dependencies) :
          plan.steps[b].dependencies[d] = plan.steps[a].id
    /\ q \in DOMAIN plan.steps[b].parameters
    /\ plan.steps[b].parameters[q] = Placeholder(plan.steps[a].id)
    /\ plan.steps[b].passed # <<>>

\* C6 (as claimed): whatever data X step A completed with, the value passed
\* to B's tool for the parameter is X.
C6_ThreadsAnyData ==
    \A a \in Steps, b \in Steps, q \in {"content"} :
        Threads(a, b, q) => plan.steps[b].passed[1][q] = plan.steps[a].result[1].data

\* C6 (amended): when step A completed with non-empty data X, the value
\* passed to B's tool for the parameter is X.
C6_ThreadsData ==
    \A a \in Steps, b \in Steps, q \in {"content"} :
        (Threads(a, b, q) /\ Truthy(plan.steps[a].result[1].data)) =>
            plan.steps[b].passed[1][q] = plan.steps[a].result[1].data

C6_Witness ==
    \E a \in Steps, b \in Steps :
        /\ Threads(a, b, "content")
        /\ Len(plan.steps) = 2
        /\ plan.steps[b].passed[1]["content"] = Out(plan.steps[a].id)

\* C7: when a parallel execute_plan returns, every step has been launched
\* exactly once and is completed or failed, and the results are one per
\* step, the i-th being the result of the i-th step (a step whose tool
\* raised is there as a failed result).
C7_ParallelResults ==
    (pc = "executed" /\ Parallel) =>
        /\ Len(results) = Len(plan.steps)
        /\ \A i \in Steps :
              /\ plan.steps[i].status \in {"completed", "failed"}
              /\ plan.steps[i].executions = 1
              /\ results[i] = plan.steps[i].result[1]
              /\ results[i].success <=> plan.steps[i].status = "completed"
              /\ results[i].data \in {None, Str(""), Out(plan.steps[i].id)}

C7_Witness ==
    /\ pc = "executed"
    /\ Parallel
    /\ Len(plan.steps) >= 2
    /\ plan.steps[1].status = "failed"
    /\ plan.steps[2].status = "completed"
    /\ call.raised

\* C8: after any sequence of completed route_request calls, total_requests
\* = successful_routes + failed_routes = the number of calls.
C8_CountersAccount ==
    pc = "idle" =>
        /\ routing_stats.total_requests = requests
        /\ routing_stats.total_requests =
              routing_stats.successful_routes + routing_stats.failed_routes

\* C9: when the registry yields no candidate pair for the classified intent,
\* route_request returns exactly one failed ToolResult with the no-tools
\* error, raises nothing, builds no plan and invokes no tool.
C9_NoCandidates ==
    (pc = "returned" /\ ~ ClassifyRaises(call.text)
        /\ AvailableTools(tools, call.text) = <<>>) =>
        /\ returned = << << NoToolsResult >> >>
        /\ FailedWithError(NoToolsResult)
        /\ ~ call.raised
        /\ plan = NoPlan
        /\ results = <<>>
        /\ active_plans = {}

C9_Witness ==
    /\ pc = "returned"
    /\ tools # <<>>
    /\ call.text.is_str
    /\ AvailableTools(tools, call.text) = <<>>
    /\ returned = << << NoToolsResult >> >>

\* C10: the plan create_plan built is in active_plans while execute_plan
\* runs it, and is not once execute_plan has returned, whether the plan
\* completed, failed or got stuck.
C10_PlanEviction ==
    /\ (pc \in {"loop", "round", "step", "gather"} /\ call.kind = "route") =>
          plan.id \in active_plans
    /\ (pc \in {"executed", "returned"} /\ plan # NoPlan) => plan.id \notin active_plans

C10_Witness ==
    /\ pc = "executed"
    /\ call.kind = "route"
    /\ plan.steps # <<>>
    /\ ~ is_complete(plan)
    /\ ~ has_failures(plan)
    /\ plan.id \notin active_plans

\* the plan in hand was built by create_plan (called by the caller or by
\* route_request) from the candidate list call.available_tools
Created == call.kind \in {"create", "route"} /\ plan # NoPlan

\* the candidate pairs of a kind, in candidate order
PairsOf(ttype, name) ==
    LET Is(pr) == pr.capability.tool_type = ttype /\ pr.capability.name = name
    IN  SelectSeq(call.available_tools, Is)

PairsOfType(ttype) ==
    LET Is(pr) == pr.capability.tool_type = ttype
    IN  SelectSeq(call.available_tools, Is)

\* C11: in every plan create_plan returns, each id in each step's
\* dependencies is the id of a step of that same plan.
C11_NoDanglingDependency ==
    Created =>
        \A i \in Steps :
            \A d \in 1..Len(plan.steps[i].dependencies) :
                \E j \in Steps : plan.steps[j].id = plan.steps[i].dependencies[d]

\* the case of C12: a code_explain or code_review intent with a file_path,
\* and two candidates, a filesystem read_file pair and a code_analysis pair
ReadThenAnalyzeCase ==
    /\ call.kind = "create"
    /\ plan.intent.type \in {"code_explain", "code_review"}
    /\ "file_path" \in DOMAIN plan.intent.parameters
    /\ Len(call.available_tools) = 2
    /\ Len(PairsOf("filesystem", "read_file")) = 1
    /\ Len(PairsOfType("code_analysis")) = 1

\* C12: in that case create_plan produces exactly two steps, the read step
\* (of the file_path) first and the analysis step second, the second
\* depending on the first and the first on nothing, and the plan is
\* sequential.
C12_ReadThenAnalyze ==
    ReadThenAnalyzeCase =>
        /\ Len(plan.steps) = 2
        /\ plan.steps[1].tool = PairsOf("filesystem", "read_file")[1].tool
        /\ plan.steps[1].capability.name = "read_file"
        /\ plan.steps[1].parameters = ("file_path" :> plan.intent.parameters["file_path"])
        /\ plan.steps[1].dependencies = <<>>
        /\ plan.steps[2].tool = PairsOfType("code_analysis")[1].tool
        /\ plan.steps[2].capability = PairsOfType("code_analysis")[1].capability
        /\ plan.steps[2].dependencies = << plan.steps[1].id >>
        /\ plan.steps[2].id # plan.steps[1].id
        /\ ~ plan.parallel_execution

C12_Witness ==
    /\ ReadThenAnalyzeCase
    /\ pc = "created"
    /\ plan.intent.type = "code_review"
    /\ call.available_tools[1].capability.tool_type = "code_analysis"
    /\ plan.steps[2].capability.name = "explain_code"

\* the case of C13: a code_generate intent whose raw input contains a
\* filename-like token, a generate_code pair and a write_file pair among the
\* candidates
GenerateThenWriteCase ==
    /\ call.kind = "create"
    /\ plan.intent.type = "code_generate"
    /\ contains_filename(plan.intent.raw_input)
    /\ PairsOf("code_analysis", "generate_code") # <<>>
    /\ PairsOf("filesystem", "write_file") # <<>>

\* the plan is a generate step followed by a write step that depends on it
\* and whose content is the deferred reference to its result
GenerateThenWritePlan ==
    /\ Len(plan.steps) = 2
    /\ plan.steps[1].tool = PairsOf("code_analysis", "generate_code")[1].tool
    /\ plan.steps[1].capability.name = "generate_code"
    /\ plan.steps[1].dependencies = <<>>
    /\ plan.steps[2].tool = PairsOf("filesystem", "write_file")[1].tool
    /\ plan.steps[2].capability.name = "write_file"
    /\ plan.steps[2].dependencies = << plan.steps[1].id >>
    /\ plan.steps[2].parameters["content"] = Placeholder(plan.steps[1].id)
    /\ ~ plan.parallel_execution

DefaultCase ==
    /\ call.kind = "create"
    /\ Len(call.available_tools) # 1
    /\ plan.intent.type # "task_complex"
    /\ ~ (plan.intent.type \in {"code_explain", "code_review"}
            /\ "file_path" \in DOMAIN plan.intent.parameters)
    /\ ~ (plan.intent.type = "code_generate" /\ contains_filename(plan.intent.raw_input))

\* the candidate pairs whose category is allowed for the intent type
AllowedPairs ==
    LET Allowed(pr) == pr.capability.tool_type \in intent_tool_mapping(plan.intent.type)
    IN  SelectSeq(call.available_tools, Allowed)

\* C14: in the default case the plan has one step per candidate pair of an
\* allowed category, in candidate order and without dependencies, or, when
\* there is no such pair and there are candidates, the one step of the
\* first candidate; it is not empty when candidates existed; it is parallel
\* if and only if it has more than one step.
C14_DefaultPlan ==
    DefaultCase =>
        LET expected == IF AllowedPairs = <<>> /\ call.available_tools # <<>>
                        THEN << call.available_tools[1] >>
                        ELSE AllowedPairs
        IN  /\ Len(plan.steps) = Len(expected)
            /\ \A i \in Steps :
                  /\ plan.steps[i].tool = expected[i].tool
                  /\ plan.steps[i].capability = expected[i].capability
                  /\ plan.steps[i].dependencies = <<>>
            /\ call.available_tools # <<>> => plan.steps # <<>>
            /\ plan.parallel_execution <=> Len(plan.steps) > 1
            /\ (plan.intent.type \in {"chat_general", "unknown"}) =>
                  intent_tool_mapping(plan.intent.type) = {"code_analysis"}

C14_Witness ==
    /\ DefaultCase
    /\ pc = "created"
    /\ Len(call.available_tools) = 2
    /\ AllowedPairs = <<>>
    /\ Len(plan.steps) = 1
    /\ plan.steps[1].tool = call.available_tools[1].tool
    /\ ~ plan.parallel_execution

\* the last call was find_tools_for_intent(LookedUp.intent, LookedUp.confidence)
\* and returned LookedUp.pairs
LookedUp ==
    [intent |-> call.args[1], confidence |-> call.args[2], pairs |-> returned[1]]

\* C15: every pair find_tools_for_intent returns has a capability whose
\* threshold the confidence reaches and whose name the table maps the
\* intent to, and a registered tool that has this capability; an intent
\* absent from the table matches nothing.
C15_MatchSoundness ==
    call.kind = "lookup" =>
        /\ \A i \in 1..Len(LookedUp.pairs) :
              LET pr == LookedUp.pairs[i]
              IN  /\ LookedUp.confidence >= pr.capability.confidence_threshold
                  /\ LookedUp.intent \in DOMAIN intent_capability_mapping
                  /\ pr.capability.name \in intent_capability_mapping[LookedUp.intent]
                  /\ \E k \in 1..Len(tools) : tools[k] = pr.tool
                  /\ \E c \in 1..Len(get_capabilities(pr.tool)) :
                        get_capabilities(pr.tool)[c] = pr.capability
        /\ LookedUp.intent \notin DOMAIN intent_capability_mapping => LookedUp.pairs = <<>>

C15_Witness ==
    /\ call.kind = "lookup"
    /\ LookedUp.intent = "file_write"
    /\ LookedUp.confidence = 7
    /\ \E k \in 1..Len(tools) : tools[k] = "writer"
    /\ Len(LookedUp.pairs) = 1
    /\ LookedUp.pairs[1].tool = "filesystem"

\* the indices of the capabilities of tool t that match the lookup
Hits(t) ==
    {c \in 1..Len(get_capabilities(t)) :
        matches_intent(get_capabilities(t)[c], LookedUp.intent, LookedUp.confidence)}

\* C16 (as claimed): the returned list holds a pair for every capability of
\* every registered tool that matches the intent and the confidence.
C16_EveryMatchingCapability ==
    call.kind = "lookup" =>
        \A k \in 1..Len(tools) :
            \A c \in Hits(tools[k]) :
                \E i \in 1..Len(LookedUp.pairs) :
                    /\ LookedUp.pairs[i].tool = tools[k]
                    /\ LookedUp.pairs[i].capability = get_capabilities(tools[k])[c]

\* C16 (amended): the returned list holds exactly one pair for every
\* registered tool that has a matching capability, with the first matching
\* capability of the tool in the order of its get_capabilities, and no pair
\* for any other tool.
C16_OnePairPerMatchingTool ==
    call.kind = "lookup" =>
        /\ \A k \in 1..Len(tools) :
              LET mine == {i \in 1..Len(LookedUp.pairs) : LookedUp.pairs[i].tool = tools[k]}
              IN  IF Hits(tools[k]) = {}
                  THEN mine = {}
                  ELSE /\ Cardinality(mine) = 1
                       /\ \A i \in mine :
                             LookedUp.pairs[i].capability =
                                get_capabilities(tools[k])[
                                   CHOOSE c \in Hits(tools[k]) :
                                      \A e \in Hits(tools[k]) : c <= e]
        /\ Len(LookedUp.pairs) = Cardinality({k \in 1..Len(tools) : Hits(tools[k]) # {}})

C16_Witness ==
    /\ call.kind = "lookup"
    /\ LookedUp.intent = "code_explain"
    /\ LookedUp.confidence = 9
    /\ Len(LookedUp.pairs) = 2
    /\ \E i \in 1..2 :
          /\ LookedUp.pairs[i].tool = "linter_v2"
          /\ LookedUp.pairs[i].capability.confidence_threshold = 8
    /\ Cardinality(Hits("linter_v2")) = 2

\* the position of a pair in a list of pairs, 0 when it is not there
PositionIn(pairs, pr) ==
    IF \E i \in 1..Len(pairs) : pairs[i] = pr
    THEN CHOOSE i \in 1..Len(pairs) : pairs[i] = pr
    ELSE 0

\* C17: the returned list is ordered by non-increasing threshold, and two
\* pairs that are returned for another confidence as well are returned in
\* the same relative order for it.
C17_ResultOrder ==
    call.kind = "lookup" =>
        /\ \A i \in 1..Len(LookedUp.pairs), j \in 1..Len(LookedUp.pairs) :
              i < j => LookedUp.pairs[i].capability.confidence_threshold
                          >= LookedUp.pairs[j].capability.confidence_threshold
        /\ \A other \in LookupConfidences :
              LET others == find_tools_for_intent(tools, LookedUp.intent, other)
              IN  \A i \in 1..Len(LookedUp.pairs), j \in 1..Len(LookedUp.pairs) :
                      (/\ i < j
                       /\ PositionIn(others, LookedUp.pairs[i]) > 0
                       /\ PositionIn(others, LookedUp.pairs[j]) > 0)
                      => PositionIn(others, LookedUp.pairs[i])
                            < PositionIn(others, LookedUp.pairs[j])

C17_Witness ==
    /\ call.kind = "lookup"
    /\ Len(LookedUp.pairs) = 2
    /\ LookedUp.pairs[1].capability.confidence_threshold
          > LookedUp.pairs[2].capability.confidence_threshold
    /\ LookedUp.pairs # Matches(tools, LookedUp.intent, LookedUp.confidence)

Listed(registered, caps_by_name, index, name) ==
    \/ get_tool(registered, name) # <<>>
    \/ \E i \in 1..Len(get_all_tools(registered)) :
          ToolName(get_all_tools(registered)[i]) = name
    \/ name \in DOMAIN get_capabilities_summary(caps_by_name)
    \/ \E ty \in ToolType :
          \E i \in 1..Len(get_tools_by_type(registered, index, ty)) :
              ToolName(get_tools_by_type(registered, index, ty)[i]) = name
    \/ \E ty \in DOMAIN index : \E i \in 1..Len(index[ty]) : index[ty][i] = name
    \/ \E intent \in LookupIntents, confidence \in LookupConfidences :
          \E i \in 1..Len(find_tools_for_intent(registered, intent, confidence)) :
              ToolName(find_tools_for_intent(registered, intent, confidence)[i].tool) = name

\* C19: unregister_tool(name) returns true exactly when the name was
\* registered, and then no query of the registry (get_tool, get_all_tools,
\* get_capabilities_summary, get_tools_by_type of any type, the type index,
\* find_tools_for_intent) shows the name any more; when it returns false
\* the registry is unchanged.
C19_UnregisterRemovesEverywhere ==
    [][call'.kind = "unregister" =>
          IF returned'[1]
          THEN /\ IsRegistered(tools, call'.args[1])
               /\ ~ Listed(tools', capabilities', type_index', call'.args[1])
          ELSE /\ ~ IsRegistered(tools, call'.args[1])
               /\ tools' = tools
               /\ capabilities' = capabilities
               /\ type_index' = type_index]_vars

C19_Witness ==
    /\ call.kind = "unregister"
    /\ returned = << TRUE >>
    /\ call.args[1] = "linter"
    /\ "generation" \in DOMAIN type_index
    /\ type_index["generation"] = <<>>
    /\ Len(tools) = 2

\* C20: register_tool(t2) when a tool of the same name is registered leaves
\* exactly one tool under that name, at the place of the old one, and it is
\* t2: get_tool and get_all_tools give t2, get_capabilities_summary gives
\* the capabilities of t2, find_tools_for_intent gives pairs of t2 with its
\* capabilities; the number of tools stays the same.
C20_LastRegistrationWins ==
    [][(call'.kind = "register" /\ IsRegistered(tools, ToolName(call'.args[1]))) =>
          LET t2 == call'.args[1]
              name == ToolName(t2)
          IN  /\ get_tool(tools', name) = << t2 >>
              /\ Len(get_all_tools(tools')) = Len(tools)
              /\ \A i \in 1..Len(tools) :
                    get_all_tools(tools')[i] = IF ToolName(tools[i]) = name THEN t2
                                               ELSE tools[i]
              /\ get_capabilities_summary(capabilities')[name] =
                    [c \in 1..Len(get_capabilities(t2)) |->
                        [name |-> get_capabilities(t2)[c].name,
                         type |-> get_capabilities(t2)[c].tool_type]]
              /\ DOMAIN capabilities' = DOMAIN capabilities
              /\ \A intent \in LookupIntents, confidence \in LookupConfidences :
                    LET found == find_tools_for_intent(tools', intent, confidence)
                    IN  \A i \in 1..Len(found) :
                            ToolName(found[i].tool) = name =>
                                /\ found[i].tool = t2
                                /\ \E c \in 1..Len(get_capabilities(t2)) :
                                      get_capabilities(t2)[c] = found[i].capability]_vars

C20_Witness ==
    /\ call.kind = "register"
    /\ call.args[1] = "linter"
    /\ get_tool(tools, "linter") = << "linter" >>
    /\ "generation" \in DOMAIN type_index
    /\ type_index["generation"] = << "linter" >>

\* classify has returned from a call with a string
Classified == pc = "returned" /\ call.kind = "classify" /\ call.text.is_str

\* no fallback keyword occurs in the text
NoKeyword(t) == \A i \in 1..Len(keyword_intents) : t.hits[i] = 0

\* C21: classify is total and bounded.  For every string and every context
\* it returns an Intent without raising, whose confidence lies between 0 and
\* 1; the result has type unknown exactly when no pattern matches and no
\* fallback keyword occurs in the text, and then its confidence is 0.1.
C21_ClassifyTotalAndBounded ==
    Classified =>
        /\ ~ call.raised
        /\ Len(returned) = 1
        /\ returned[1].type \in IntentType
        /\ 0 <= returned[1].confidence /\ returned[1].confidence <= 10
        /\ returned[1].type = "unknown"
               <=> (call.text.matched = {} /\ NoKeyword(call.text))
        /\ returned[1].type = "unknown" => returned[1].confidence = 1

\* the empty text has been classified, with a context that has both keys
C21_Witness ==
    /\ Classified
    /\ call.text.text = ""
    /\ call.args = << ContextKeys >>
    /\ returned = << Intent("unknown", 1, EmptyDict, call.text) >>

\* the intent types of the table that have a pattern matching t, by position
MatchingTypes(t) ==
    { i \in 1..Len(patterns) :
        \E k \in 1..Len(patterns[i][2]) : <<patterns[i][1], k>> \in t.matched }

\* the patterns of the i-th type of the table that match t, by position
MatchingPatterns(t, i) ==
    { k \in 1..Len(patterns[i][2]) : <<patterns[i][1], k>> \in t.matched }

\* C22: first match wins in classify.  The type returned is that of the first
\* intent type of the table, in declaration order, that has a matching
\* pattern, and the boost added to the confidence is that of the first
\* matching pattern of that type, whatever later types and later patterns
\* match; the keyword fallback answers only when no pattern matches at all.
C22_FirstMatchWins ==
    Classified =>
        LET t == call.text
            r == returned[1]
        IN  /\ \A i \in MatchingTypes(t) :
                   (\A j \in MatchingTypes(t) : i <= j) =>
                       /\ r.type = patterns[i][1]
                       /\ \A k \in MatchingPatterns(t, i) :
                              (\A l \in MatchingPatterns(t, i) : k <= l) =>
                                  r.confidence =
                                      Min(10, calculate_confidence(t, r.type, call.args[1])
                                              + patterns[i][2][k])
            /\ MatchingTypes(t) = {} <=> r = classify_by_keywords(t)

\* a text was classified in which a later pattern of the winning type and a
\* pattern of a later type match too, both with a higher boost than the one
\* applied, and the confidence stayed below 1
C22_Witness ==
    /\ Classified
    /\ returned[1].type = "code_explain"
    /\ returned[1].confidence = 9
    /\ {<<"code_explain", 1>>, <<"code_explain", 3>>, <<"task_complex", 7>>}
           \subseteq call.text.matched
    /\ patterns[1][2][1] < patterns[1][2][3]
    /\ patterns[1][2][1] < patterns[12][2][7]

\* debug_routing has returned its debug_info
Debugged == pc = "returned" /\ call.kind = "debug" /\ ~ call.raised

\* C23: debug_routing classifies, looks the candidates up and builds the plan
\* without executing it.  No tool is invoked, every step of the plan it built
\* is pending and has no result, and the routing statistics are those of
\* before the call.
C23_DebugRoutingExecutesNothing ==
    [][(call'.kind = "debug" /\ pc' = "returned" /\ pc = "idle") =>
           /\ routing_stats' = routing_stats
           /\ results' = <<>>
           /\ \A i \in 1..Len(plan'.steps) :
                  /\ plan'.steps[i].status = "pending"
                  /\ plan'.steps[i].result = <<>>
                  /\ plan'.steps[i].executions = 0
                  /\ plan'.steps[i].invocations = 0
           /\ plan'.context = EmptyDict]_vars

\* debug_routing returned the layout of a plan of two steps, after a request
\* that was routed and counted
C23_Witness ==
    /\ Debugged
    /\ Len(plan.steps) = 2
    /\ returned[1].execution_plan[1].total_steps = 2
    /\ \A i \in Steps : plan.steps[i].status = "pending" /\ plan.steps[i].invocations = 0
    /\ routing_stats.total_requests = 1
    /\ routing_stats.successful_routes + routing_stats.failed_routes = 1

\* the sequential loop is at its head with no ready step and no failed one
Blocked ==
    /\ pc = "loop"
    /\ Sequential
    /\ ~ is_complete(plan)
    /\ get_next_steps(plan) = <<>>
    /\ ~ has_failures(plan)

\* C24: sequential execution terminates.  For every finite plan, with cyclic,
\* dangling or blocked dependencies and with tools that fail every time,
\* execute_plan returns once every tool invocation has returned; when no
\* step is ready and none has failed the loop ends at once, nothing is
\* raised and no result is added.
C24_SequentialTerminates ==
    /\ (Sequential /\ pc \in {"loop", "round", "step"}) ~> (pc = "executed")
    /\ [][Blocked => /\ pc' = "executed"
                     /\ results' = results
                     /\ call'.raised = call.raised]_vars

\* execute_plan returned from a plan of three steps that wait for each other
\* in a cycle: nothing ran and nothing was reported
C24_Witness ==
    /\ pc = "executed"
    /\ Sequential
    /\ Len(plan.steps) = 3
    /\ \A i \in Steps : /\ plan.steps[i].status = "pending"
                         /\ plan.steps[i].dependencies # <<>>
                         /\ plan.steps[i].executions = 0
    /\ plan.steps[1].dependencies = << plan.steps[3].id >>
    /\ results = <<>>
    /\ ~ call.raised

\* the failed steps of the plan that still have a retry left
Retryable == {i \in Steps : plan.steps[i].status = "failed"
                              /\ plan.steps[i].retry_count < plan.steps[i].max_retries}

\* C25: the retry path of the sequential mode.  A failed step becomes pending
\* again only at the head of the loop when no pending step is ready; in that
\* round every failed step with retry_count < max_retries is reset with its
\* retry_count one higher, every other step is left alone, no step is
\* executed, and the reset steps are the ready steps of the next round.  With
\* no ready step, a failed step and no retryable one the loop ends and the
\* plan stays incomplete.
C25_RetryPath ==
    [][(Sequential /\ pc \in {"loop", "round", "step"}) =>
        /\ (\E i \in Steps : plan.steps[i].status = "failed"
                               /\ plan'.steps[i].status = "pending") =>
               /\ pc = "loop" /\ pc' = "loop"
               /\ get_next_steps(plan) = <<>>
               /\ \A i \in Steps :
                      IF i \in Retryable
                      THEN /\ plan'.steps[i].status = "pending"
                           /\ plan'.steps[i].retry_count = plan.steps[i].retry_count + 1
                           /\ plan'.steps[i].executions = plan.steps[i].executions
                      ELSE plan'.steps[i] = plan.steps[i]
               /\ results' = results
               /\ get_next_steps(plan') = SelectSeq(Indices(plan), LAMBDA i : i \in Retryable)
        /\ (/\ pc = "loop"
            /\ get_next_steps(plan) = <<>>
            /\ has_failures(plan)
            /\ Retryable = {}) =>
               /\ pc' = "executed"
               /\ plan' = plan
               /\ ~ is_complete(plan')
               /\ results' = results
        /\ (pc = "loop" /\ get_next_steps(plan) = <<>> /\ Retryable # {}) =>
               \E i \in Retryable : plan'.steps[i].status = "pending"
        /\ (pc = "loop" /\ pc' = "round") => next_steps' = get_next_steps(plan)]_vars

\* two failed steps were reset together and both ran a second time
C25_Witness ==
    /\ Sequential
    /\ pc = "loop"
    /\ Len(plan.steps) >= 2
    /\ \A i \in {1, 2} : /\ plan.steps[i].retry_count = 1
                          /\ plan.steps[i].executions = 2
                          /\ plan.steps[i].max_retries = 1
                          /\ plan.steps[i].status = "failed"
    /\ Len(results) = 4

\* the index of the step of the plan with the given id (0: there is none)
StepOf(sid) ==
    IF \E j \in Steps : plan.steps[j].id = sid
    THEN CHOOSE j \in Steps : plan.steps[j].id = sid
    ELSE 0

\* step j has completed with data that is not empty
HasData(j) ==
    /\ plan.steps[j].status = "completed"
    /\ Truthy(plan.steps[j].result[1].data)

\* C26: the context write rule of the sequential mode.  plan.context has the
\* key step_<id>_result exactly when the step with that id has completed
\* with non-empty data, and the value is that data; a failed or dataless
\* result adds nothing.  A step is invoked with its parameters as written,
\* except that a parameter whose whole value is the token ${step_<id>_result}
\* of a step that has completed with data is replaced by that data: the
\* token of a failed or dataless step, and a token inside a longer string,
\* are passed on unchanged.
C26_ContextWriteRule ==
    /\ [](Sequential =>
            /\ \A j \in Steps :
                   /\ ContextKey(plan.steps[j].id) \in DOMAIN plan.context <=> HasData(j)
                   /\ HasData(j) =>
                          plan.context[ContextKey(plan.steps[j].id)]
                              = plan.steps[j].result[1].data
            /\ \A key \in DOMAIN plan.context :
                   \E j \in Steps : key = ContextKey(plan.steps[j].id))
    /\ [][(Sequential /\ pc = "round" /\ pc' = "step") =>
            LET b == Head(next_steps)
                params == plan.steps[b].parameters
            IN  /\ plan'.steps[b].invocations = plan.steps[b].invocations + 1
                /\ DOMAIN plan'.steps[b].passed[1] = DOMAIN params
                /\ \A q \in DOMAIN params :
                       plan'.steps[b].passed[1][q] =
                           IF /\ params[q].k = "ref"
                              /\ StepOf(params[q].id) # 0
                              /\ HasData(StepOf(params[q].id))
                           THEN plan.steps[StepOf(params[q].id)].result[1].data
                           ELSE params[q]]_vars

\* the second step, whose content is the token of the first step and then a
\* suffix, was invoked with that string although the first step had
\* completed with data and its key was in the context
C26_Witness ==
    /\ Sequential
    /\ Len(plan.steps) >= 2
    /\ HasData(1)
    /\ ContextKey(plan.steps[1].id) \in DOMAIN plan.context
    /\ plan.steps[2].parameters["content"] = Embedded(plan.steps[1].id, "suffix")
    /\ plan.steps[2].invocations = 1
    /\ plan.steps[2].passed[1]["content"] = Embedded(plan.steps[1].id, "suffix")

\* a required parameter of step i's capability is absent from its resolved
\* parameters (resolution replaces values and keeps the keys)
MissingRequired(i) ==
    \E n \in 1..Len(plan.steps[i].capability.required_params) :
        plan.steps[i].capability.required_params[n]
            \notin DOMAIN resolve_parameters(plan.steps[i].parameters, plan.context)

\* C27: a missing required parameter.  The tool of such a step is never
\* invoked; every attempt ends with the step failed and holding a result with
\* success = false and an error; execute hands that result to execute_plan,
\* which appends it and goes on, and execute_plan returns its results.
C27_MissingRequiredParameter ==
    /\ [](\A i \in Steps :
              MissingRequired(i) =>
                  /\ plan.steps[i].invocations = 0
                  /\ plan.steps[i].passed = <<>>
                  /\ plan.steps[i].status \in {"pending", "running", "failed"}
                  /\ (plan.steps[i].executions > 0 /\ plan.steps[i].status # "running") =>
                         /\ Len(plan.steps[i].result) = 1
                         /\ FailedWithError(plan.steps[i].result[1])
                         /\ plan.steps[i].error # ""
                  /\ (plan.steps[i].executions > 0 /\ pc = "executed") =>
                         /\ plan.steps[i].status = "failed"
                         /\ \E n \in 1..Len(results) : results[n] = plan.steps[i].result[1])
    /\ [][(pc = "step" /\ MissingRequired(Head(next_steps))) =>
              /\ pc' \in {"loop", "round"}
              /\ plan'.steps[Head(next_steps)].status = "failed"
              /\ Len(results') = Len(results) + 1
              /\ FailedWithError(results'[Len(results')])]_vars

\* execute_plan returned from a sequential plan whose last step lacks its
\* content: the step was attempted twice, its tool never invoked, and the
\* steps before it completed
C27_Witness ==
    /\ pc = "executed"
    /\ Sequential
    /\ Len(plan.steps) = 2
    /\ MissingRequired(2)
    /\ plan.steps[2].executions = 2
    /\ plan.steps[2].invocations = 0
    /\ plan.steps[2].status = "failed"
    /\ plan.steps[1].status = "completed"
    /\ Len(results) = 3

\* create_plan was called with exactly one candidate pair
SingleCandidate == Created /\ call.kind = "create" /\ Len(call.available_tools) = 1

\* the intents for which create_plan has a shape of several steps
ShapedIntent(intent) ==
    \/ intent.type = "task_complex"
    \/ intent.type \in {"code_explain", "code_review"}
          /\ "file_path" \in DOMAIN intent.parameters
    \/ intent.type = "code_generate" /\ contains_filename(intent.raw_input)

\* C28: rule precedence in create_plan.  With exactly one candidate pair the
\* plan has exactly one step, which uses that pair, has the first step id and
\* no dependencies, and the plan is sequential, whatever the intent: also
\* for task_complex, for code_explain and code_review with a file_path, and
\* for code_generate whose input names a file.
C28_SingleCandidateFirst ==
    SingleCandidate =>
        /\ Len(plan.steps) = 1
        /\ plan.steps[1].id = StepId(plan.id, 1)
        /\ plan.steps[1].tool = call.available_tools[1].tool
        /\ plan.steps[1].capability = call.available_tools[1].capability
        /\ plan.steps[1].dependencies = <<>>
        /\ plan.steps[1].parameters
               = prepare_parameters(plan.intent, call.available_tools[1].capability)
        /\ ~ plan.parallel_execution

\* create_plan returned a plan of one search_web step for a task_complex
\* intent with a file_path
C28_Witness ==
    /\ SingleCandidate
    /\ pc = "created"
    /\ plan.intent.type = "task_complex"
    /\ "file_path" \in DOMAIN plan.intent.parameters
    /\ ShapedIntent(plan.intent)
    /\ call.available_tools[1] = PairOf("web", "search_web")
    /\ Len(plan.steps) = 1
    /\ plan.steps[1].capability.name = "search_web"

\* C29: a failed step does not abort its siblings.  In the sequential mode,
\* when the step being executed fails (its tool raises or returns a failure)
\* its result is appended to the results and the rest of the ready set stays
\* scheduled; the steps of a ready set are executed one after the other in
\* declaration order; and when execute_plan returns every failure is among
\* the results and no step whose dependencies are completed was left
\* unexecuted.
C29_FailureDoesNotAbortSiblings ==
    /\ [][(Sequential /\ pc = "step"
              /\ plan'.steps[Head(next_steps)].status = "failed") =>
              /\ results' = Append(results, plan'.steps[Head(next_steps)].result[1])
              /\ FailedWithError(results'[Len(results')])
              /\ next_steps' = Tail(next_steps)
              /\ pc' = IF Tail(next_steps) = <<>> THEN "loop" ELSE "round"]_vars
    /\ [][(Sequential /\ pc = "round") =>
              /\ pc' = "step"
              /\ next_steps' = next_steps
              /\ plan'.steps[Head(next_steps)].executions
                     = plan.steps[Head(next_steps)].executions + 1]_vars
    /\ [](Sequential /\ pc \in {"round", "step"} =>
              /\ next_steps # <<>>
              /\ \A m, n \in 1..Len(next_steps) : m < n => next_steps[m] < next_steps[n])
    /\ [](Sequential /\ pc = "executed" =>
              \A i \in Steps :
                  /\ plan.steps[i].status = "failed" =>
                         \E n \in 1..Len(results) : results[n] = plan.steps[i].result[1]
                  /\ DependenciesMet(plan, i) =>
                         /\ plan.steps[i].status \in {"completed", "failed"}
                         /\ plan.steps[i].executions > 0)

\* execute_plan returned from three independent steps that formed one ready
\* set: the first failed, once by raising, and the two after it completed in
\* the same round
C29_Witness ==
    /\ Sequential
    /\ pc = "executed"
    /\ call.raised
    /\ Len(plan.steps) = 3
    /\ \A i \in Steps : plan.steps[i].dependencies = <<>> /\ plan.steps[i].executions = 1
    /\ plan.steps[1].status = "failed"
    /\ plan.steps[2].status = "completed"
    /\ plan.steps[3].status = "completed"
    /\ results = << plan.steps[1].result[1], plan.steps[2].result[1],
                    plan.steps[3].result[1] >>

\* a tool with a capability of the given type is registered
RegisteredType(ttype) ==
    \E i \in 1..Len(tools) :
        \E c \in 1..Len(get_capabilities(tools[i])) :
            get_capabilities(tools[i])[c].tool_type = ttype

\* route_request built and runs a plan for a code_explain or code_review
\* intent with an extracted file_path, with a filesystem tool and a
\* code-analysis tool registered
RoutedFileAnalysis ==
    /\ call.kind = "route"
    /\ plan # NoPlan
    /\ plan.intent.type \in {"code_explain", "code_review"}
    /\ "file_path" \in DOMAIN plan.intent.parameters
    /\ RegisteredType("filesystem")
    /\ RegisteredType("code_analysis")

\* C30: end to end, the file is read before it is analysed.  The plan that
\* route_request executes for such a request has a read_file step for the
\* extracted path, and no analysis step is invoked before that step has
\* completed.
C30_ReadBeforeAnalyze ==
    RoutedFileAnalysis =>
        \E r \in Steps :
            /\ plan.steps[r].capability.name = "read_file"
            /\ plan.steps[r].parameters["file_path"] = plan.intent.parameters["file_path"]
            /\ \A a \in Steps :
                   (plan.steps[a].capability.tool_type = "code_analysis"
                       /\ plan.steps[a].executions > 0) =>
                       plan.steps[r].status = "completed"

\* the registered tools that report a capability of type ty
ToolsOfType(ty) ==
    { tools[i] : i \in { j \in 1..Len(tools) :
                           \E c \in 1..Len(get_capabilities(tools[j])) :
                               get_capabilities(tools[j])[c].tool_type = ty } }

\* C31: the type index is consistent.  After any sequence of register_tool
\* and unregister_tool calls get_tools_by_type(T) returns exactly the
\* registered tools that report a capability of type T, each of them once.
C31_TypeIndexConsistent ==
    \A ty \in ToolType :
        LET listed == get_tools_by_type(tools, type_index, ty)
        IN  /\ { listed[i] : i \in 1..Len(listed) } = ToolsOfType(ty)
            /\ \A i, j \in 1..Len(listed) : listed[i] = listed[j] => i = j

\* C32: no plan leaks.  After any sequence of route_request and
\* debug_routing calls, whenever no call is in flight the planner's
\* active_plans is empty: every plan create_plan stored has been removed.
C32_NoPlanLeak ==
    pc = "idle" => active_plans = {}

\* the intent types intent_capability_mapping has no entry for
Unmapped ==
    {"task_complex", "shell_execute", "chat_general", "config_manage", "model_manage",
     "unknown"}

\* a route_request call whose text classifies to an intent type without a
\* capability mapping has returned
RoutedUnmapped ==
    /\ pc = "returned"
    /\ call.kind = "route"
    /\ ~ call.raised
    /\ classify(call.text, NoContext).type \in Unmapped

\* C33: intent types without a capability mapping never reach the planner.
\* (The registry does not change during a call, so the lookup is examined
\* between calls.)  For task_complex, shell_execute, chat_general, config_manage, model_manage
\* and unknown no tool using the default can_handle offers a capability at
\* any confidence, find_tools_for_intent over the registered tools is empty,
\* route_request returns the single no-tools failure, and no plan is ever
\* built for such an intent.
C33_UnmappedNeverPlanned ==
    /\ pc = "idle" =>
          \A i \in Unmapped : \A c \in 0..10 :
              /\ \A t \in ToolObjs : can_handle(t, i, c) = <<>>
              /\ find_tools_for_intent(tools, i, c) = <<>>
    /\ RoutedUnmapped =>
          /\ call.available_tools = <<>>
          /\ returned = << << NoToolsResult >> >>
          /\ plan = NoPlan
          /\ active_plans = {}
    /\ plan # NoPlan => plan.intent.type \notin Unmapped

C33_Witness ==
    /\ RoutedUnmapped
    /\ classify(call.text, NoContext).type = "task_complex"
    /\ classify(call.text, NoContext).confidence >= DefaultThreshold
    /\ Len(tools) = 3
    /\ returned = << << NoToolsResult >> >>

\* the number of execute() calls made on the steps so far
RECURSIVE TotalExecutions(_)
TotalExecutions(steps) ==
    IF steps = <<>> THEN 0
    ELSE Head(steps).executions + TotalExecutions(Tail(steps))

\* the number of steps whose execute() has not returned yet
Awaited(steps) == Cardinality({i \in 1..Len(steps) : steps[i].status = "running"})

\* C34: sequential results are per attempt.  In sequential mode every return
\* of a step's execute() appends that attempt's result at the end of results
\* and nothing else changes the list, so results holds one entry per attempt
\* in the order of execution: its length is the total number of attempts, a
\* step retried k times has k + 1 attempts behind it and a step never executed
\* has none.
C34_ResultsPerAttempt ==
    [][ (plan' # NoPlan /\ ~ plan'.parallel_execution) =>
          /\ IF pc = "step"
             THEN /\ plan'.steps[Head(next_steps)].executions
                        = plan.steps[Head(next_steps)].executions
                  /\ results' = Append(results, plan'.steps[Head(next_steps)].result[1])
             ELSE results' = results
          /\ Len(results') = TotalExecutions(plan'.steps) - Awaited(plan'.steps)
          /\ pc' = "executed" =>
                \A i \in 1..Len(plan'.steps) :
                    plan'.steps[i].executions
                        = IF plan'.steps[i].status = "pending" /\ plan'.steps[i].retry_count = 0
                          THEN 0 ELSE plan'.steps[i].retry_count + 1 ]_vars

C34_Witness ==
    /\ Sequential
    /\ pc = "executed"
    /\ Len(plan.steps) = 3
    /\ plan.steps[1].status = "completed"
    /\ plan.steps[1].retry_count = 1
    /\ plan.steps[1].executions = 2
    /\ plan.steps[2].status = "failed"
    /\ plan.steps[2].executions = 2
    /\ plan.steps[3].executions = 0
    /\ Len(results) = 4
    /\ ~ results[1].success /\ results[2].success
    /\ ~ results[3].success /\ ~ results[4].success

\* step i of plan p depends on step j, directly or through at most n steps
RECURSIVE DependsOn(_, _, _, _)
DependsOn(p, i, j, n) ==
    /\ n > 0
    /\ \E d \in 1..Len(p.steps[i].dependencies) :
          \E k \in 1..Len(p.steps) :
              /\ p.steps[k].id = p.steps[i].dependencies[d]
              /\ (k = j \/ DependsOn(p, k, j, n - 1))

\* a step that is failed with no retry left
Exhausted(s) == s.status = "failed" /\ s.retry_count >= s.max_retries

\* every step of p that depends on an exhausted step was never executed, is
\* pending and has no result
DependentsBlocked(p) ==
    \A f, d \in 1..Len(p.steps) :
        (Exhausted(p.steps[f]) /\ DependsOn(p, d, f, Len(p.steps))) =>
            /\ p.steps[d].executions = 0
            /\ p.steps[d].status = "pending"
            /\ p.steps[d].result = <<>>

\* a completed step of p keeps its status and its result in q
CompletedKept(p, q) ==
    \A i \in 1..Len(p.steps) :
        p.steps[i].status = "completed" =>
            /\ q.steps[i].status = "completed"
            /\ q.steps[i].result = p.steps[i].result

\* C35 as stated, for every plan: when execute_plan returns, the steps that
\* depend, directly or transitively, on a step that ended failed with its
\* retries exhausted were never executed, are pending and have no result;
\* completed steps keep their status and result.
C35_BlockedDependents ==
    [][ plan' # NoPlan =>
          /\ pc' = "executed" => DependentsBlocked(plan')
          /\ plan # NoPlan => CompletedKept(plan, plan') ]_vars

\* C35, amended: the same for the plans executed in sequential mode, the only
\* mode that consults dependencies.
C35_BlockedDependentsSequential ==
    [][ (plan' # NoPlan /\ ~ plan'.parallel_execution) =>
          /\ pc' = "executed" => DependentsBlocked(plan')
          /\ plan # NoPlan => CompletedKept(plan, plan') ]_vars

C35_Witness ==
    /\ Sequential
    /\ pc = "executed"
    /\ Len(plan.steps) = 3
    /\ plan.steps[1].status = "completed"
    /\ Exhausted(plan.steps[2])
    /\ plan.steps[2].retry_count = 1
    /\ DependsOn(plan, 3, 2, 3) /\ DependsOn(plan, 3, 1, 3)
    /\ plan.steps[3].status = "pending"
    /\ plan.steps[3].executions = 0

\* C36: the retry counter is bounded.  In every state of a plan execution,
\* in either mode, each step has 0 <= retry_count <= max_retries and its
\* execute() has been entered at most 1 + max_retries times, whatever the
\* other steps did.
C36_RetryCounterBound ==
    plan # NoPlan =>
        \A i \in 1..Len(plan.steps) :
            /\ 0 <= plan.steps[i].retry_count
            /\ plan.steps[i].retry_count <= plan.steps[i].max_retries
            /\ plan.steps[i].executions <= 1 + plan.steps[i].max_retries
            /\ plan.steps[i].executions <= 1 + plan.steps[i].retry_count

C36_Witness ==
    /\ Sequential
    /\ pc = "loop"
    /\ Len(plan.steps) = 2
    /\ plan.steps[1].status = "completed"
    /\ plan.steps[1].retry_count = 2
    /\ plan.steps[2].status = "failed"
    /\ plan.steps[2].max_retries = DefaultMaxRetries
    /\ plan.steps[2].retry_count = DefaultMaxRetries
    /\ plan.steps[2].executions = 1 + DefaultMaxRetries

\* C37: the parallel mode has no retry and no context.  While and after a
\* plan with parallel_execution = true is executed, retry_count is 0 for
\* every step, no step is executed twice, plan.context is left as it was,
\* the parameters handed to validation and to the tool are the step's own
\* parameters (a ${...} placeholder stays the literal placeholder, whatever
\* the context holds), and at return every step has been executed exactly
\* once, whatever its dependencies.
C37_ParallelNoRetryNoContext ==
    [][ (plan' # NoPlan /\ plan'.parallel_execution) =>
          /\ plan # NoPlan => plan'.context = plan.context
          /\ \A i \in 1..Len(plan'.steps) :
                /\ plan'.steps[i].retry_count = 0
                /\ plan'.steps[i].executions <= 1
                /\ plan'.steps[i].passed # <<>> =>
                      plan'.steps[i].passed[1] = plan'.steps[i].parameters
                /\ plan'.steps[i].executions = 1 =>
                      (plan'.steps[i].invocations = 1
                          <=> validate_params(plan'.steps[i].capability,
                                              plan'.steps[i].parameters))
          /\ pc' = "executed" =>
                /\ Len(results') = Len(plan'.steps)
                /\ \A i \in 1..Len(plan'.steps) :
                      /\ plan'.steps[i].executions = 1
                      /\ plan'.steps[i].status \in {"completed", "failed"} ]_vars

C37_Witness ==
    /\ Parallel
    /\ pc = "executed"
    /\ Len(plan.steps) = 2
    /\ ContextKey(plan.steps[1].id) \in DOMAIN plan.context
    /\ plan.steps[1].status = "failed"
    /\ plan.steps[1].max_retries = DefaultMaxRetries
    /\ plan.steps[1].retry_count = 0
    /\ plan.steps[2].dependencies = << plan.steps[1].id >>
    /\ plan.steps[2].status = "completed"
    /\ plan.steps[2].parameters["content"] = Placeholder(plan.steps[1].id)
    /\ plan.steps[2].passed[1]["content"] = Placeholder(plan.steps[1].id)

\* a parameter value that is a ${...} placeholder
IsPlaceholder(x) == StartsWithToken(x) /\ EndsWithToken(x)

\* C38: parallel plans are independent.  Every plan create_plan returns with
\* parallel_execution = true has at least two steps, and none of them has a
\* dependency or a parameter that is a ${...} placeholder; every plan with
\* a step that has a dependency has parallel_execution = false.
C38_ParallelPlansIndependent ==
    Created =>
        /\ plan.parallel_execution =>
              /\ Len(plan.steps) >= 2
              /\ \A i \in 1..Len(plan.steps) :
                    /\ plan.steps[i].dependencies = <<>>
                    /\ \A k \in DOMAIN plan.steps[i].parameters :
                          ~ IsPlaceholder(plan.steps[i].parameters[k])
        /\ (\E i \in 1..Len(plan.steps) : plan.steps[i].dependencies # <<>>) =>
              ~ plan.parallel_execution

C38_Witness ==
    /\ Created
    /\ pc = "created"
    /\ plan.parallel_execution
    /\ Len(call.available_tools) = 2
    /\ Len(plan.steps) = 2
    /\ plan.steps[1].tool # plan.steps[2].tool

\* the sum of a counter over the keys of intent_accuracy
RECURSIVE SumOver(_, _, _)
SumOver(accuracy, keys, counter) ==
    IF keys = {} THEN 0
    ELSE LET k == CHOOSE x \in keys : TRUE
         IN  accuracy[k][counter] + SumOver(accuracy, keys \ {k}, counter)

Attempts(stats) == SumOver(stats.intent_accuracy, DOMAIN stats.intent_accuracy, "attempts")

Successes(stats) == SumOver(stats.intent_accuracy, DOMAIN stats.intent_accuracy, "successes")

\* execute_plan has returned to route_request, which returns next
RouteFinishing == pc = "executed" /\ call.kind = "route"

\* C39: the per-intent counters are consistent.  In every state, for every
\* key of intent_accuracy successes <= attempts, and the successes of all
\* keys add up to successful_routes; the attempts of all keys grow by one,
\* under the key of the intent, exactly when a route_request call returns
\* from plan execution, and by nothing when it returns for an exception or
\* for want of tools, so they add up to the number of calls that reached
\* plan execution.
C39_IntentCountersConsistent ==
    [][ /\ \A k \in DOMAIN routing_stats'.intent_accuracy :
              /\ 0 <= routing_stats'.intent_accuracy[k].successes
              /\ routing_stats'.intent_accuracy[k].successes
                     <= routing_stats'.intent_accuracy[k].attempts
        /\ Successes(routing_stats') = routing_stats'.successful_routes
        /\ Attempts(routing_stats')
               = Attempts(routing_stats) + (IF RouteFinishing THEN 1 ELSE 0)
        /\ Attempts(routing_stats')
               <= routing_stats'.successful_routes + routing_stats'.failed_routes
        /\ RouteFinishing =>
              /\ plan.intent.type \in DOMAIN routing_stats'.intent_accuracy
              /\ \A k \in DOMAIN routing_stats.intent_accuracy :
                    k # plan.intent.type =>
                        routing_stats'.intent_accuracy[k]
                            = routing_stats.intent_accuracy[k] ]_vars

\* the second of two calls returned from a successful plan execution after
\* the first ended in the except branch
C39_Witness ==
    /\ pc = "returned"
    /\ requests = 2
    /\ routing_stats.total_requests = 2
    /\ call.kind = "route" /\ ~ call.raised
    /\ plan # NoPlan
    /\ Cardinality(DOMAIN routing_stats.intent_accuracy) = 1
    /\ Attempts(routing_stats) = 1
    /\ Successes(routing_stats) = 1
    /\ routing_stats.successful_routes = 1
    /\ routing_stats.failed_routes = 1

====
